---- MODULE Spec2Model ----
(***************************************************************************)
(* Verification model of the EZIO-G500 driver (sagostin/EZIO-G500).        *)
(*                                                                         *)
(*   SpecFB     pkg/eziog500/framebuffer.go : the pixel grid and its       *)
(*              wire-format codec (ToDeviceFormat / FromDeviceFormat).     *)
(*   SpecDev    pkg/eziog500/device.go      : the buffered device link     *)
(*              used by two goroutines (cmdMenu's main and signal          *)
(*              goroutines).                                               *)
(*   SpecDaemon pfsense status daemon       : the metrics collector        *)
(*              goroutine and the render / rotate loop of Run              *)
(*              (SpecCollector and SpecLeds: each goroutine on its own).   *)
(*   SpecNav    pkg/menu/menu.go            : selection and scrolling of   *)
(*              one Menu.                                                  *)
(*   SpecCtl    pkg/menu/menu.go            : MenuController.Run over a    *)
(*              tree of menus.                                             *)
(*   SpecButtons, SpecButtonsFair                                          *)
(*              pkg/eziog500/buttons.go     : the ButtonChannel poll       *)
(*              goroutine, its channel and its consumer.                   *)
(*   SpecSession pkg/eziog500/device.go     : StartSession and the         *)
(*              PersistentSession methods.                                 *)
(***************************************************************************)
EXTENDS Integers, Sequences, FiniteSets, TLC

VARIABLES
    \* ---- FrameBuffer (framebuffer.go) ----
    fb,         \* FrameBuffer.data, as the set of <<x, y>> with data[y][x] = true
    wire,       \* the [BufferSize]byte returned by ToDeviceFormat (index 0..1023)
    fb2,        \* the fresh FrameBuffer that FromDeviceFormat populates
    fbpc,       \* position of the codec run: "draw", "encoded", "decoded"
    fbLog,      \* history: the last drawing call, its arguments, the buffer before
    \* ---- Device (device.go) and its two client goroutines ----
    buffer,     \* Device.buffer: the pending bytes
    link,       \* the blocks handed to cu's stdin (stdin.Write), oldest first
    dpc,        \* per goroutine: position inside the device call it is making
    dcur,       \* per goroutine: the call it is making or made last
    dret,       \* per goroutine: what its last completed call returned
    written,    \* history: every Device.Write so far, in lock order
    nCalls,     \* number of device calls the main goroutine has started
    ioFailures, \* history: number of flushes that failed with an I/O error
    lastStep,   \* history: the device method that ran last
    \* ---- StatusDaemon (pfsense status daemon) ----
    cachedMetrics,  \* sd.cachedMetrics: Nil or the snapshot stored last
    history,        \* sd.history (MetricsHistory)
    lastIfaceBytes, \* sd.lastIfaceBytes: interface name -> [tx, rx]
    ifaceRates,     \* sd.ifaceRates: interface name -> [txRate, rxRate]
    lastSampleTime, \* sd.lastSampleTime (0 is the zero time)
    frameCount,     \* sd.frameCount
    currentScreen,  \* sd.currentScreen
    cpc,            \* collector goroutine: position inside fetchMetrics
    cm,             \* collector goroutine: the local `metrics` of fetchMetrics
    rpc,            \* Run goroutine: position inside the tick it is serving
    rm,             \* Run goroutine: the local `metrics` of render
    ledState,       \* colour last passed to SetLED, per LED
    lastRender,     \* what the last screen Render drew, and from what
    clock,          \* wall-clock time, in seconds
    fetchLog,       \* history: GetMetrics calls made, failed, and the last result
    \* ---- Menu (pkg/menu/menu.go) ----
    Items,          \* Menu.Items: the items, each with its Disabled flag
    selected,       \* Menu.selected
    scrollOffset,   \* Menu.scrollOffset
    maxVisible,     \* Menu.maxVisible
    navpc,          \* the caller: "ready", "hung" inside a loop, or "panicked"
    menuLog,        \* history: the last Menu method called and the selection before it
    \* ---- MenuController (pkg/menu/menu.go) ----
    menus,          \* per Menu of the tree: its selected and scrollOffset
    currentMenu,    \* mc.currentMenu
    mcpc,           \* position of Run: "new", "loop", "returned"
    mcret,          \* what Run returned
    mcLog,          \* history: the last button Run handled and what it did
    \* ---- button poll loop (pkg/eziog500/buttons.go) ----
    reader,         \* which ButtonChannel runs: "none", "device", "session"
    stdout,         \* bytes the session's cu has written and Read has not taken
    ch,             \* the buffered channel ch: the buttons sent and not received
    chClosed,       \* close(ch) has run
    stop,           \* the stop channel: "open" or "closed"
    pollpc,         \* poll goroutine: "select", "process", "sleep", "exited"
    pollbuf,        \* poll goroutine: buf[i:n], the bytes still to process
    consumerpc,     \* the goroutine that receives from ch and calls stop
    got,            \* history: the buttons received from ch, in order
    brLog,          \* history: drops, stop calls, receives after close
    \* ---- PersistentSession (pkg/eziog500/device.go) ----
    sessions,       \* the sessions StartSession returned, oldest first
    ssLog,          \* history: the last session call and its result
    port,           \* the serial path given to Open: what the system has there
    openRet,        \* what Open returned
    \* ---- a MetricsHistory fed on its own (part_010) ----
    hist,           \* the MetricsHistory
    histLog         \* history: the CPU values of the samples added, in order

fbVars == <<fb, wire, fb2, fbpc, fbLog>>

devVars == <<buffer, link, dpc, dcur, dret, written, nCalls, ioFailures, lastStep>>

dmVars == <<cachedMetrics, history, lastIfaceBytes, ifaceRates, lastSampleTime,
            frameCount, currentScreen, cpc, cm, rpc, rm, ledState, lastRender,
            clock, fetchLog>>

mnVars == <<Items, selected, scrollOffset, maxVisible, navpc, menuLog>>

mcVars == <<menus, currentMenu, mcpc, mcret, mcLog>>

brVars == <<reader, stdout, ch, chClosed, stop, pollpc, pollbuf, consumerpc, got,
            brLog>>

ssVars == <<sessions, ssLog, port, openRet>>

hsVars == <<hist, histLog>>

restVars == <<mcVars, brVars, ssVars, hsVars>>

vars == <<fb, wire, fb2, fbpc, fbLog,
          buffer, link, dpc, dcur, dret, written, nCalls, ioFailures, lastStep,
          cachedMetrics, history, lastIfaceBytes, ifaceRates, lastSampleTime,
          frameCount, currentScreen, cpc, cm, rpc, rm, ledState, lastRender,
          clock, fetchLog,
          Items, selected, scrollOffset, maxVisible, navpc, menuLog,
          menus, currentMenu, mcpc, mcret, mcLog,
          reader, stdout, ch, chClosed, stop, pollpc, pollbuf, consumerpc, got,
          brLog, sessions, ssLog, port, openRet, hist, histLog>>

(***************************************************************************)
(* FrameBuffer                                                             *)
(***************************************************************************)
Width == 128
Height == 64
BufferSize == 1024

\* Coordinates the drawing calls are tried with: the corners of both display
\* halves, the first and last bit of a band, and one step outside each edge.
PixelXs == {-1, 0, 64, 127, 128}
PixelYs == {-1, 0, 7, 63, 64}

Pow2(n) == IF n = 0 THEN 1 ELSE IF n = 1 THEN 2 ELSE IF n = 2 THEN 4
           ELSE IF n = 3 THEN 8 ELSE IF n = 4 THEN 16 ELSE IF n = 5 THEN 32
           ELSE IF n = 6 THEN 64 ELSE 128

\* (b & (1 << bit)) != 0
BitSet(b, bit) == (b \div Pow2(bit)) % 2 = 1

AllPixels == (0 .. Width - 1) \X (0 .. Height - 1)

NewFrameBuffer == {}

ZeroImage == [i \in 0 .. BufferSize - 1 |-> 0]

\* A bounds test that lets x = Width and y = Height through.
InBoundsInclusive(x, y) == ~(x < 0 \/ x > Width \/ y < 0 \/ y > Height)

\* The test of SetPixel, GetPixel and Invert, negated.
InBounds(x, y) == ~(x < 0 \/ x >= Width \/ y < 0 \/ y >= Height)

\* fb.data[y][x] = on, clipped
SetPixelOp(f, x, y, on) ==
    IF ~InBounds(x, y) THEN f
    ELSE IF on THEN f \cup {<<x, y>>} ELSE f \ {<<x, y>>}

GetPixel(f, x, y) == IF ~InBounds(x, y) THEN FALSE ELSE <<x, y>> \in f

InvertOp(f, x, y) ==
    IF ~InBounds(x, y) THEN f
    ELSE IF <<x, y>> \in f THEN f \ {<<x, y>>} ELSE f \cup {<<x, y>>}

\* The loop of DrawHLine once x1 <= x2: SetPixel(x, y, on) for x = x1 .. x2.
RECURSIVE DrawHLineLoop(_, _, _, _, _)
DrawHLineLoop(f, x, x2, y, on) ==
    IF x > x2 THEN f
    ELSE DrawHLineLoop(SetPixelOp(f, x, y, on), x + 1, x2, y, on)

\* DrawHLine(x1, x2, y, on): the ends are exchanged when x1 > x2.
DrawHLineOp(f, x1, x2, y, on) ==
    IF x1 > x2 THEN DrawHLineLoop(f, x2, x1, y, on)
    ELSE DrawHLineLoop(f, x1, x2, y, on)

\* FillRect(x, y, w, h, on) from row dy on:
\* for dy < h { DrawHLine(x, x+w-1, y+dy, on) }.
RECURSIVE FillRectLoop(_, _, _, _, _, _, _)
FillRectLoop(f, x, y, w, h, dy, on) ==
    IF dy >= h THEN f
    ELSE FillRectLoop(DrawHLineOp(f, x, x + w - 1, y + dy, on),
                      x, y, w, h, dy + 1, on)

FillRectOp(f, x, y, w, h, on) == FillRectLoop(f, x, y, w, h, 0, on)

\* Coordinates and sizes the drawing calls of SpecDraw are tried with: the
\* corners of the display and one step outside each edge; rectangles that
\* start at or across an edge, of width and height 0, 1 and 2.
DrawXs == {-1, 0, 127, 128}
DrawYs == {-1, 0, 63, 64}
RectXs == {-1, 127}
RectYs == {-1, 63}
RectSizes == {0, 1, 2}

\* No drawing call has been made.
NoDraw == [op |-> "none", x |-> 0, y |-> 0, w |-> 0, h |-> 0, on |-> FALSE,
           before |-> {}, got |-> FALSE]

\* The byte of the 8 vertical pixels of column x in band `band`:
\* bit `bit` is set iff data[band*8+bit][x].
BandByte(f, x, band) ==
    LET B(bit) == IF <<x, band * 8 + bit>> \in f THEN Pow2(bit) ELSE 0
    IN  B(0) + B(1) + B(2) + B(3) + B(4) + B(5) + B(6) + B(7)

\* raw[band*128 + x] = b
RawEncode(f) ==
    [i \in 0 .. BufferSize - 1 |-> BandByte(f, i % 128, i \div 128)]

\* The rearrangement loops of ToDeviceFormat: idx runs over the left half
\* (band-major, columns 0..63), then over the right half (columns 64..127);
\* result[idx] = raw[band*128 + x].
RawIndexOf(idx) ==
    IF idx < 512
    THEN (idx \div 64) * 128 + (idx % 64)
    ELSE ((idx - 512) \div 64) * 128 + 64 + ((idx - 512) % 64)

\* A codec that applies the XOR with 0xFF announced in the doc comment.
ToDeviceFormatXor(f) ==
    LET raw == RawEncode(f)
    IN  [idx \in 0 .. BufferSize - 1 |-> 255 - raw[RawIndexOf(idx)]]

ToDeviceFormat(f) ==
    LET raw == RawEncode(f)
    IN  [idx \in 0 .. BufferSize - 1 |-> raw[RawIndexOf(idx)]]

\* raw[band*128 + x] = data[idx] for the same two loops, read backwards:
\* the idx that the loops pair with raw position r.
IdxOfRaw(r) ==
    LET band == r \div 128
        x    == r % 128
    IN  IF x < 64 THEN band * 64 + x ELSE 512 + band * 64 + (x - 64)

\* A decoder that forgets the left/right split and reads the bands in
\* plain column order.
FromDeviceFormatNoSplit(d) ==
    {p \in AllPixels : BitSet(d[(p[2] \div 8) * 128 + p[1]], p[2] % 8)}

FromDeviceFormat(d) ==
    LET raw == [r \in 0 .. BufferSize - 1 |-> d[IdxOfRaw(r)]]
    IN  {p \in AllPixels : BitSet(raw[(p[2] \div 8) * 128 + p[1]], p[2] % 8)}

InitFB ==
    /\ fb = NewFrameBuffer
    /\ wire = ZeroImage
    /\ fb2 = NewFrameBuffer
    /\ fbpc = "draw"
    /\ fbLog = NoDraw

SetPixel(x, y, on) ==
    /\ fbpc = "draw"
    /\ fb' = SetPixelOp(fb, x, y, on)
    /\ UNCHANGED <<wire, fb2, fbpc, fbLog>>
    /\ UNCHANGED <<devVars, dmVars, mnVars, restVars>>

Invert(x, y) ==
    /\ fbpc = "draw"
    /\ fb' = InvertOp(fb, x, y)
    /\ UNCHANGED <<wire, fb2, fbpc, fbLog>>
    /\ UNCHANGED <<devVars, dmVars, mnVars, restVars>>

Clear ==
    /\ fbpc = "draw"
    /\ fb' = {}
    /\ UNCHANGED <<wire, fb2, fbpc, fbLog>>
    /\ UNCHANGED <<devVars, dmVars, mnVars, restVars>>

Fill ==
    /\ fbpc = "draw"
    /\ fb' = AllPixels
    /\ UNCHANGED <<wire, fb2, fbpc, fbLog>>
    /\ UNCHANGED <<devVars, dmVars, mnVars, restVars>>

InvertAll ==
    /\ fbpc = "draw"
    /\ fb' = AllPixels \ fb
    /\ UNCHANGED <<wire, fb2, fbpc, fbLog>>
    /\ UNCHANGED <<devVars, dmVars, mnVars, restVars>>

\* data := fb.ToDeviceFormat()
Encode ==
    /\ fbpc = "draw"
    /\ wire' = ToDeviceFormat(fb)
    /\ fbpc' = "encoded"
    /\ UNCHANGED <<fb, fb2, fbLog>>
    /\ UNCHANGED <<devVars, dmVars, mnVars, restVars>>

\* fb2 := NewFrameBuffer(); fb2.FromDeviceFormat(data)
Decode ==
    /\ fbpc = "encoded"
    /\ fb2' = FromDeviceFormat(wire)
    /\ fbpc' = "decoded"
    /\ UNCHANGED <<fb, wire, fbLog>>
    /\ UNCHANGED <<devVars, dmVars, mnVars, restVars>>

\* fb.SetPixel(x, y, on), with the call recorded.
SetPixelCall(x, y, on) ==
    /\ fbpc = "draw"
    /\ fb' = SetPixelOp(fb, x, y, on)
    /\ fbLog' = [NoDraw EXCEPT !.op = "SetPixel", !.x = x, !.y = y, !.on = on,
                               !.before = fb]
    /\ UNCHANGED <<wire, fb2, fbpc>>
    /\ UNCHANGED <<devVars, dmVars, mnVars, restVars>>

\* fb.Invert(x, y), with the call recorded.
InvertCall(x, y) ==
    /\ fbpc = "draw"
    /\ fb' = InvertOp(fb, x, y)
    /\ fbLog' = [NoDraw EXCEPT !.op = "Invert", !.x = x, !.y = y, !.before = fb]
    /\ UNCHANGED <<wire, fb2, fbpc>>
    /\ UNCHANGED <<devVars, dmVars, mnVars, restVars>>

\* fb.GetPixel(x, y), with the call and its result recorded.
GetPixelCall(x, y) ==
    /\ fbpc = "draw"
    /\ fbLog' = [NoDraw EXCEPT !.op = "GetPixel", !.x = x, !.y = y,
                               !.before = fb, !.got = GetPixel(fb, x, y)]
    /\ UNCHANGED <<fb, wire, fb2, fbpc>>
    /\ UNCHANGED <<devVars, dmVars, mnVars, restVars>>

\* fb.FillRect(x, y, w, h, on), with the call recorded.
FillRect(x, y, w, h, on) ==
    /\ fbpc = "draw"
    /\ fb' = FillRectOp(fb, x, y, w, h, on)
    /\ fbLog' = [op |-> "FillRect", x |-> x, y |-> y, w |-> w, h |-> h,
                 on |-> on, before |-> fb, got |-> FALSE]
    /\ UNCHANGED <<wire, fb2, fbpc>>
    /\ UNCHANGED <<devVars, dmVars, mnVars, restVars>>

NextDraw ==
    \/ \E x \in DrawXs, y \in DrawYs, on \in BOOLEAN : SetPixelCall(x, y, on)
    \/ \E x \in DrawXs, y \in DrawYs : InvertCall(x, y)
    \/ \E x \in DrawXs, y \in DrawYs : GetPixelCall(x, y)
    \/ \E x \in RectXs, y \in RectYs, w \in RectSizes, h \in RectSizes,
          on \in BOOLEAN : FillRect(x, y, w, h, on)

NextFB ==
    \/ \E x \in PixelXs, y \in PixelYs, on \in BOOLEAN : SetPixel(x, y, on)
    \/ \E x \in PixelXs, y \in PixelYs : Invert(x, y)
    \/ Clear
    \/ Fill
    \/ InvertAll
    \/ Encode
    \/ Decode

(***************************************************************************)
(* Device: pending buffer, flush through cu, and the command methods.      *)
(* Every method body runs under d.mu, so each Write, Flush and Close is    *)
(* one atomic step; UploadImage and SetLED are three such steps.           *)
(*                                                                         *)
(* The clients are the two goroutines of cmdMenu: "main" (the menu         *)
(* controller: renders with Display.Update, runs menu actions, closes the  *)
(* display) and "sig" (the signal handler: Update of the goodbye frame,    *)
(* Close, os.Exit).                                                        *)
(***************************************************************************)
ESC == 27
cmdClear == 12
cmdBacklight == 66
cmdUpload == 71
cmdLED == 76
cmdHome == 11
cmdInit == 64
cmdShowPage == 80
cmdSavePage == 83
cmdInverted == 114
cmdCursorPrefix == 91
cmdCursorUp == 65
cmdCursorDown == 66
cmdCursorRight == 67
cmdCursorLeft == 68

led1Red == 16
led1Green == 32
led2Red == 48
led2Green == 64
led3Red == 80
led3Green == 96
ledStatusOn == 1
ledStatusOff == 0

\* Number of device calls the main goroutine makes when it is the only
\* goroutine, and when the signal goroutine of cmdMenu runs beside it.
MaxCalls == 3
MaxMenuCalls == 1
\* Number of flushes that fail with an I/O error.
MaxFail == 1

Procs == {"main", "sig"}

\* data[:] of a [1024]byte
ImageBytes(img) == [i \in 1 .. BufferSize |-> img[i - 1]]

\* The frame the menu renders and the goodbye frame of the signal handler
\* (its border, DrawRect(0, 0, 128, 64)); glyph rendering is left out.
MenuFrame == {<<0, 0>>, <<0, 7>>, <<64, 0>>}
GoodbyeFrame == {p \in AllPixels : p[1] \in {0, 127} \/ p[2] \in {0, 63}}

MenuImage == ToDeviceFormat(MenuFrame)
GoodbyeImage == ToDeviceFormat(GoodbyeFrame)

\* Commands the main goroutine buffers with a single Write:
\* Device.Clear and Device.SetBacklight(200).
Commands == {<<cmdClear>>, <<ESC, cmdBacklight, 200>>}

\* SetLED arguments the main goroutine uses.
LedInputs == {<<"LED1", "LEDGreen">>, <<"LED2", "LEDRed">>,
              <<"LED3", "LEDOff">>, <<"LED2", "LEDOrange">>}

redCmd(led) == IF led = "LED2" THEN led2Red
               ELSE IF led = "LED3" THEN led3Red ELSE led1Red
greenCmd(led) == IF led = "LED2" THEN led2Green
                 ELSE IF led = "LED3" THEN led3Green ELSE led1Green

\* The LEDs and the colours of the API.
LEDs == {"LED1", "LED2", "LED3"}

LEDColorNames == {"LEDOff", "LEDRed", "LEDGreen", "LEDOrange"}

\* A SetLED whose LEDOrange case is the LEDRed case.
SetLEDCommandsOrangeAsRed(led, color) ==
    IF color = "LEDOff"
    THEN << <<ESC, cmdLED, redCmd(led) + ledStatusOff>>,
            <<ESC, cmdLED, greenCmd(led) + ledStatusOff>> >>
    ELSE IF color = "LEDGreen"
    THEN << <<ESC, cmdLED, redCmd(led) + ledStatusOff>>,
            <<ESC, cmdLED, greenCmd(led) + ledStatusOn>> >>
    ELSE << <<ESC, cmdLED, greenCmd(led) + ledStatusOff>>,
            <<ESC, cmdLED, redCmd(led) + ledStatusOn>> >>

\* The two 3-byte commands SetLED writes, in order.
SetLEDCommands(led, color) ==
    IF color = "LEDOff"
    THEN << <<ESC, cmdLED, redCmd(led) + ledStatusOff>>,
            <<ESC, cmdLED, greenCmd(led) + ledStatusOff>> >>
    ELSE IF color = "LEDRed"
    THEN << <<ESC, cmdLED, greenCmd(led) + ledStatusOff>>,
            <<ESC, cmdLED, redCmd(led) + ledStatusOn>> >>
    ELSE IF color = "LEDGreen"
    THEN << <<ESC, cmdLED, redCmd(led) + ledStatusOff>>,
            <<ESC, cmdLED, greenCmd(led) + ledStatusOn>> >>
    ELSE << <<ESC, cmdLED, redCmd(led) + ledStatusOn>>,
            <<ESC, cmdLED, greenCmd(led) + ledStatusOn>> >>

\* The calls of the command methods of one Write, with the arguments tried.
CommandCalls ==
    {[name |-> n, arg |-> 0] : n \in {"Init", "Clear", "Home"}}
    \cup {[name |-> "SetBacklight", arg |-> a] : a \in {0, 200, 255}}
    \cup {[name |-> "ShowPage", arg |-> a] : a \in {0, 3}}
    \cup {[name |-> "SavePage", arg |-> a] : a \in {1}}
    \cup {[name |-> "SetInverted", arg |-> a] : a \in BOOLEAN}
    \cup {[name |-> "MoveCursor", arg |-> a] : a \in {"Up", "Down", "Right", "Left"}}
    \cup {[name |-> "SetLEDRaw", arg |-> a] : a \in {17, 96}}

\* The command methods with the bytes for Right and Left exchanged.
CommandBytesCursorSwapped(c) ==
    IF c.name = "Init" THEN <<ESC, cmdInit>>
    ELSE IF c.name = "Clear" THEN <<cmdClear>>
    ELSE IF c.name = "Home" THEN <<cmdHome>>
    ELSE IF c.name = "SetBacklight" THEN <<ESC, cmdBacklight, c.arg>>
    ELSE IF c.name = "ShowPage" THEN <<ESC, cmdShowPage, c.arg>>
    ELSE IF c.name = "SavePage" THEN <<ESC, cmdSavePage, c.arg>>
    ELSE IF c.name = "SetInverted"
         THEN <<ESC, cmdInverted, IF c.arg THEN 1 ELSE 0>>
    ELSE IF c.name = "MoveCursor"
         THEN <<ESC, cmdCursorPrefix,
                IF c.arg = "Down" THEN cmdCursorDown
                ELSE IF c.arg = "Right" THEN cmdCursorLeft
                ELSE IF c.arg = "Left" THEN cmdCursorRight
                ELSE cmdCursorUp>>
    ELSE <<ESC, cmdLED, c.arg>>

\* The slice each command method hands to Write.
CommandBytes(c) ==
    IF c.name = "Init" THEN <<ESC, cmdInit>>
    ELSE IF c.name = "Clear" THEN <<cmdClear>>
    ELSE IF c.name = "Home" THEN <<cmdHome>>
    ELSE IF c.name = "SetBacklight" THEN <<ESC, cmdBacklight, c.arg>>
    ELSE IF c.name = "ShowPage" THEN <<ESC, cmdShowPage, c.arg>>
    ELSE IF c.name = "SavePage" THEN <<ESC, cmdSavePage, c.arg>>
    ELSE IF c.name = "SetInverted"
         THEN <<ESC, cmdInverted, IF c.arg THEN 1 ELSE 0>>
    ELSE IF c.name = "MoveCursor"
         THEN <<ESC, cmdCursorPrefix,
                IF c.arg = "Down" THEN cmdCursorDown
                ELSE IF c.arg = "Right" THEN cmdCursorRight
                ELSE IF c.arg = "Left" THEN cmdCursorLeft
                ELSE cmdCursorUp>>
    ELSE <<ESC, cmdLED, c.arg>>

RECURSIVE Flatten(_)
Flatten(blocks) ==
    IF blocks = <<>> THEN <<>> ELSE Head(blocks) \o Flatten(Tail(blocks))

RECURSIVE FlattenData(_)
FlattenData(ws) ==
    IF ws = <<>> THEN <<>> ELSE Head(ws).data \o FlattenData(Tail(ws))

NoCall == [call |-> "none", id |-> -1, data2 |-> <<>>]

\* d.buffer.Write(data), putting the new bytes in front of the pending ones.
BufferWritePrepend(buf, data) == data \o buf

\* d.buffer.Write(data)
BufferWrite(buf, data) == buf \o data

\* How many bytes a failing stdin.Write may have passed on before the error.
PartialWrites(data) == {0, Len(data) - 1}

\* flushWithCu that also drops the pending bytes when the write to cu fails.
flushWithCuDropOnError(buf, mayFail) ==
    IF Len(buf) = 0
    THEN {[ret |-> "nil", sent |-> <<>>, buf |-> buf, failed |-> FALSE]}
    ELSE {[ret |-> "nil", sent |-> <<buf>>, buf |-> <<>>, failed |-> FALSE]}
         \cup
         (IF mayFail
          THEN {[ret |-> "pipe", sent |-> <<>>, buf |-> buf, failed |-> TRUE],
                [ret |-> "start", sent |-> <<>>, buf |-> buf, failed |-> TRUE]}
               \cup
               {[ret |-> "write",
                 sent |-> IF n = 0 THEN <<>> ELSE <<SubSeq(buf, 1, n)>>,
                 buf |-> <<>>, failed |-> TRUE] : n \in PartialWrites(buf)}
          ELSE {})

\* flushWithCu that leaves the bytes it sent in the buffer.
flushWithCuNoReset(buf, mayFail) ==
    IF Len(buf) = 0
    THEN {[ret |-> "nil", sent |-> <<>>, buf |-> buf, failed |-> FALSE]}
    ELSE {[ret |-> "nil", sent |-> <<buf>>, buf |-> buf, failed |-> FALSE]}
         \cup
         (IF mayFail
          THEN {[ret |-> "pipe", sent |-> <<>>, buf |-> buf, failed |-> TRUE],
                [ret |-> "start", sent |-> <<>>, buf |-> buf, failed |-> TRUE]}
               \cup
               {[ret |-> "write",
                 sent |-> IF n = 0 THEN <<>> ELSE <<SubSeq(buf, 1, n)>>,
                 buf |-> buf, failed |-> TRUE] : n \in PartialWrites(buf)}
          ELSE {})

\* flushWithCu: the outcomes of one call on pending bytes buf.  ret is the
\* error returned ("nil" for none, else the step that failed: the stdin
\* pipe, the start of cu, the write to cu), sent the blocks handed to cu,
\* buf the pending bytes afterwards.
flushWithCu(buf, mayFail) ==
    IF Len(buf) = 0
    THEN {[ret |-> "nil", sent |-> <<>>, buf |-> buf, failed |-> FALSE]}
    ELSE {[ret |-> "nil", sent |-> <<buf>>, buf |-> <<>>, failed |-> FALSE]}
         \cup
         (IF mayFail
          THEN {[ret |-> "pipe", sent |-> <<>>, buf |-> buf, failed |-> TRUE],
                [ret |-> "start", sent |-> <<>>, buf |-> buf, failed |-> TRUE]}
               \cup
               {[ret |-> "write",
                 sent |-> IF n = 0 THEN <<>> ELSE <<SubSeq(buf, 1, n)>>,
                 buf |-> buf, failed |-> TRUE] : n \in PartialWrites(buf)}
          ELSE {})

\* The state after Open.  sigpc is where the signal goroutine starts: "off"
\* in the commands that install none, "wait" in cmdMenu.
DeviceOpened(sigpc) ==
    /\ buffer = <<>>
    /\ link = <<>>
    /\ dpc = [p \in Procs |-> IF p = "main" THEN "idle" ELSE sigpc]
    /\ dcur = [p \in Procs |-> NoCall]
    /\ dret = [p \in Procs |-> "nil"]
    /\ written = <<>>
    /\ nCalls = 0
    /\ ioFailures = 0
    /\ lastStep = [n |-> 0, p |-> "none", step |-> "none", ret |-> "nil",
                   fin |-> FALSE, sent |-> 0, prev |-> "none", prevRet |-> "nil"]

InitDev == DeviceOpened("off")

InitMenu == DeviceOpened("wait")

\* os.Exit(0) in the signal goroutine ends both goroutines.
Alive == dpc["sig"] # "exited"

\* The main goroutine is between calls and has calls left.
CallBound == IF dpc["sig"] = "off" THEN MaxCalls ELSE MaxMenuCalls

MainReady == Alive /\ dpc["main"] = "idle" /\ nCalls < CallBound

\* Where a goroutine stands after a call made from position pc returns.
AfterCall(p, call) ==
    IF p = "main" THEN "idle"
    ELSE IF call = "UploadImage" THEN "close" ELSE "exit"

\* The record of a device method that has just run in goroutine p: which
\* method, what it returned, whether the call of p returned with it (fin),
\* how many blocks it handed to cu, and the method that ran before it.
StepRec(p, step, ret, fin, sent) ==
    [n |-> lastStep.n + 1, p |-> p, step |-> step, ret |-> ret, fin |-> fin,
     sent |-> sent, prev |-> lastStep.step, prevRet |-> lastStep.ret]

\* Device.Write: append to the pending buffer (one locked step).
WriteStep(p, id, data) ==
    /\ buffer' = BufferWrite(buffer, data)
    /\ written' = Append(written, [id |-> id, p |-> p, data |-> data])
    /\ UNCHANGED <<link, ioFailures>>

\* Device.Flush / the flush inside Close: one locked call of flushWithCu.
FlushStep(o) ==
    /\ buffer' = o.buf
    /\ link' = link \o o.sent
    /\ ioFailures' = IF o.failed THEN ioFailures + 1 ELSE ioFailures
    /\ UNCHANGED written

\* A command method of one Write (Clear, SetBacklight, ...), by main.
DevWrite(data) ==
    /\ MainReady
    /\ WriteStep("main", nCalls + 1, data)
    /\ nCalls' = nCalls + 1
    /\ dcur' = [dcur EXCEPT !["main"] =
                   [call |-> "Write", id |-> nCalls + 1, data2 |-> <<>>]]
    /\ dret' = [dret EXCEPT !["main"] = "nil"]
    /\ lastStep' = StepRec("main", "Write", "nil", TRUE, 0)
    /\ UNCHANGED dpc
    /\ UNCHANGED <<fbVars, dmVars, mnVars, restVars>>

\* A command method called by main: one Write of its bytes.
DevCommand(c) ==
    /\ MainReady
    /\ WriteStep("main", nCalls + 1, CommandBytes(c))
    /\ nCalls' = nCalls + 1
    /\ dcur' = [dcur EXCEPT !["main"] =
                   [call |-> c.name, id |-> nCalls + 1, data2 |-> <<>>,
                    arg |-> c.arg]]
    /\ dret' = [dret EXCEPT !["main"] = "nil"]
    /\ lastStep' = StepRec("main", "Write", "nil", TRUE, 0)
    /\ UNCHANGED dpc
    /\ UNCHANGED <<fbVars, dmVars, mnVars, restVars>>

\* Device.Flush, by main.
Flush ==
    /\ MainReady
    /\ \E o \in flushWithCu(buffer, ioFailures < MaxFail) :
          /\ FlushStep(o)
          /\ dret' = [dret EXCEPT !["main"] = o.ret]
          /\ lastStep' = StepRec("main", "Flush", o.ret, TRUE, Len(o.sent))
    /\ nCalls' = nCalls + 1
    /\ dcur' = [dcur EXCEPT !["main"] =
                   [call |-> "Flush", id |-> nCalls + 1, data2 |-> <<>>]]
    /\ UNCHANGED dpc
    /\ UNCHANGED <<fbVars, dmVars, mnVars, restVars>>

\* Close that returns without flushing.
DevCloseNoFlush(p) ==
    /\ Alive
    /\ IF p = "main" THEN dpc[p] = "idle" /\ nCalls < CallBound
                     ELSE dpc[p] = "close"
    /\ UNCHANGED <<buffer, link, ioFailures, written>>
    /\ dret' = [dret EXCEPT ![p] = "nil"]
    /\ lastStep' = StepRec(p, "Close", "nil", TRUE, 0)
    /\ nCalls' = IF p = "main" THEN nCalls + 1 ELSE nCalls
    /\ dcur' = [dcur EXCEPT ![p] =
                   [call |-> "Close", id |-> IF p = "main" THEN nCalls + 1 ELSE 0,
                    data2 |-> <<>>]]
    /\ dpc' = [dpc EXCEPT ![p] = AfterCall(p, "Close")]
    /\ UNCHANGED <<fbVars, dmVars, mnVars, restVars>>

\* Device.Close (Display.Close): flush what is pending, if anything.
DevClose(p) ==
    /\ Alive
    /\ IF p = "main" THEN dpc[p] = "idle" /\ nCalls < CallBound
                     ELSE dpc[p] = "close"
    /\ IF Len(buffer) > 0
       THEN \E o \in flushWithCu(buffer, ioFailures < MaxFail) :
               /\ FlushStep(o)
               /\ dret' = [dret EXCEPT ![p] = o.ret]
               /\ lastStep' = StepRec(p, "Close", o.ret, TRUE, Len(o.sent))
       ELSE /\ UNCHANGED <<buffer, link, ioFailures, written>>
            /\ dret' = [dret EXCEPT ![p] = "nil"]
            /\ lastStep' = StepRec(p, "Close", "nil", TRUE, 0)
    /\ nCalls' = IF p = "main" THEN nCalls + 1 ELSE nCalls
    /\ dcur' = [dcur EXCEPT ![p] =
                   [call |-> "Close", id |-> IF p = "main" THEN nCalls + 1 ELSE 0,
                    data2 |-> <<>>]]
    /\ dpc' = [dpc EXCEPT ![p] = AfterCall(p, "Close")]
    /\ UNCHANGED <<fbVars, dmVars, mnVars, restVars>>

\* UploadImage, first statement: d.Write([]byte{ESC, cmdUpload}).
\* main uploads the menu frame (Display.Update in MenuController.render),
\* sig the goodbye frame.
UploadImagePrefix(p) ==
    /\ Alive
    /\ IF p = "main" THEN dpc[p] = "idle" /\ nCalls < CallBound
                     ELSE dpc[p] = "wait"
    /\ LET id  == IF p = "main" THEN nCalls + 1 ELSE 0
           img == IF p = "main" THEN MenuImage ELSE GoodbyeImage
       IN  /\ WriteStep(p, id, <<ESC, cmdUpload>>)
           /\ dcur' = [dcur EXCEPT ![p] =
                          [call |-> "UploadImage", id |-> id,
                           data2 |-> ImageBytes(img)]]
    /\ nCalls' = IF p = "main" THEN nCalls + 1 ELSE nCalls
    /\ dpc' = [dpc EXCEPT ![p] = "w2"]
    /\ lastStep' = StepRec(p, "Write", "nil", FALSE, 0)
    /\ UNCHANGED dret
    /\ UNCHANGED <<fbVars, dmVars, mnVars, restVars>>

\* UploadImage, second statement: d.Write(data[:]).
UploadImageData(p) ==
    /\ Alive
    /\ dpc[p] = "w2"
    /\ dcur[p].call = "UploadImage"
    /\ WriteStep(p, dcur[p].id, dcur[p].data2)
    /\ dpc' = [dpc EXCEPT ![p] = "flush"]
    /\ lastStep' = StepRec(p, "Write", "nil", FALSE, 0)
    /\ UNCHANGED <<dcur, dret, nCalls>>
    /\ UNCHANGED <<fbVars, dmVars, mnVars, restVars>>

\* UploadImage, last statement: return d.Flush().
UploadImageFlush(p) ==
    /\ Alive
    /\ dpc[p] = "flush"
    /\ dcur[p].call = "UploadImage"
    /\ \E o \in flushWithCu(buffer, ioFailures < MaxFail) :
          /\ FlushStep(o)
          /\ dret' = [dret EXCEPT ![p] = o.ret]
          /\ lastStep' = StepRec(p, "Flush", o.ret, TRUE, Len(o.sent))
    /\ dpc' = [dpc EXCEPT ![p] = AfterCall(p, "UploadImage")]
    /\ UNCHANGED <<dcur, nCalls>>
    /\ UNCHANGED <<fbVars, dmVars, mnVars, restVars>>

\* SetLED, first Write of the colour's case, by main.
SetLEDFirst(led, color) ==
    /\ MainReady
    /\ WriteStep("main", nCalls + 1, SetLEDCommands(led, color)[1])
    /\ dcur' = [dcur EXCEPT !["main"] =
                   [call |-> "SetLED", id |-> nCalls + 1,
                    data2 |-> SetLEDCommands(led, color)[2],
                    led |-> led, color |-> color]]
    /\ nCalls' = nCalls + 1
    /\ dpc' = [dpc EXCEPT !["main"] = "w2"]
    /\ lastStep' = StepRec("main", "Write", "nil", FALSE, 0)
    /\ UNCHANGED dret
    /\ UNCHANGED <<fbVars, dmVars, mnVars, restVars>>

\* SetLED, second Write of the colour's case.
SetLEDSecond ==
    /\ Alive
    /\ dpc["main"] = "w2"
    /\ dcur["main"].call = "SetLED"
    /\ WriteStep("main", dcur["main"].id, dcur["main"].data2)
    /\ dpc' = [dpc EXCEPT !["main"] = "flush"]
    /\ lastStep' = StepRec("main", "Write", "nil", FALSE, 0)
    /\ UNCHANGED <<dcur, dret, nCalls>>
    /\ UNCHANGED <<fbVars, dmVars, mnVars, restVars>>

\* SetLED, last statement: return d.Flush().
SetLEDFlush ==
    /\ Alive
    /\ dpc["main"] = "flush"
    /\ dcur["main"].call = "SetLED"
    /\ \E o \in flushWithCu(buffer, ioFailures < MaxFail) :
          /\ FlushStep(o)
          /\ dret' = [dret EXCEPT !["main"] = o.ret]
          /\ lastStep' = StepRec("main", "Flush", o.ret, TRUE, Len(o.sent))
    /\ dpc' = [dpc EXCEPT !["main"] = "idle"]
    /\ UNCHANGED <<dcur, nCalls>>
    /\ UNCHANGED <<fbVars, dmVars, mnVars, restVars>>

\* os.Exit(0) at the end of the signal goroutine.
Exit ==
    /\ dpc["sig"] = "exit"
    /\ dpc' = [dpc EXCEPT !["sig"] = "exited"]
    /\ UNCHANGED <<buffer, link, dcur, dret, written, nCalls, ioFailures, lastStep>>
    /\ UNCHANGED <<fbVars, dmVars, mnVars, restVars>>

NextDev ==
    \/ \E data \in Commands : DevWrite(data)
    \/ Flush
    \/ DevClose("main")
    \/ UploadImagePrefix("main")
    \/ UploadImageData("main")
    \/ UploadImageFlush("main")
    \/ \E in \in LedInputs : SetLEDFirst(in[1], in[2])
    \/ SetLEDSecond
    \/ SetLEDFlush

\* A command that sets the LEDs and nothing else (the led command, the LED
\* Control menu): SetLED with any LED and colour.
NextLed ==
    \/ \E led \in LEDs, color \in LEDColorNames : SetLEDFirst(led, color)
    \/ SetLEDSecond
    \/ SetLEDFlush

\* The command methods, with Flush between them.
NextCmd ==
    \/ \E c \in CommandCalls : DevCommand(c)
    \/ Flush

NextMenu ==
    \/ \E data \in Commands : DevWrite(data)
    \/ Flush
    \/ \E p \in Procs : DevClose(p)
    \/ \E p \in Procs : UploadImagePrefix(p)
    \/ \E p \in Procs : UploadImageData(p)
    \/ \E p \in Procs : UploadImageFlush(p)
    \/ \E in \in LedInputs : SetLEDFirst(in[1], in[2])
    \/ SetLEDSecond
    \/ SetLEDFlush
    \/ Exit

(***************************************************************************)
(* StatusDaemon: the collector goroutine (startMetricsCollector /           *)
(* fetchMetrics) and the Run goroutine (animation tick, rotation tick).     *)
(* The two goroutines share sd without a lock, so fetchMetrics is split at  *)
(* each statement that writes a shared field, and render at each read.      *)
(***************************************************************************)
NumScreens == 7
maxSamples == 12

\* Number of GetMetrics calls and of animation ticks.
MaxFetch == 3
MaxFrames == 1

\* Number of GetMetrics calls while the Run loop has served no tick.
MaxCollect == 4

\* Seconds that pass from one return of GetMetrics to the next (the
\* collector's ticker period).
Durations == {5}

Nil == [id |-> 0]

\* What GetMetrics can report: CPU %, memory, and the interfaces with their
\* cumulative counters.  The second reading has lost em1 and has larger
\* em0 counters; going back from the second to the first is a counter reset
\* of em0 and brings em1 back.
IfA1 == [Name |-> "em0", TxBytes |-> 500, RxBytes |-> 1000]
IfA2 == [Name |-> "em0", TxBytes |-> 1100, RxBytes |-> 2000]
IfB1 == [Name |-> "em1", TxBytes |-> 10, RxBytes |-> 10]

Readings ==
    { [CPU |-> 50, MemUsed |-> 4, MemTotal |-> 8, Interfaces |-> <<IfA1, IfB1>>],
      [CPU |-> 95, MemUsed |-> 7, MemTotal |-> 8, Interfaces |-> <<IfA2>>] }

\* Readings around the thresholds of updateLEDs: CPU % and memory
\* used/total (50 %, 80 %, 81 %, 90 %, 91 %).
LedCPUs == {50, 70, 71, 90, 91, 95}
LedMems == {<<4, 8>>, <<8, 10>>, <<81, 100>>, <<9, 10>>, <<91, 100>>}

LedReadings ==
    { [CPU |-> c, MemUsed |-> u[1], MemTotal |-> u[2],
       Interfaces |-> <<IfA1, IfB1>>] : c \in LedCPUs, u \in LedMems }

\* The *Metrics a successful GetMetrics call number n returns: a fresh
\* struct, told apart from every other by id.
Snapshot(n, r) ==
    [id |-> n, CPU |-> r.CPU, MemUsed |-> r.MemUsed, MemTotal |-> r.MemTotal,
     Interfaces |-> r.Interfaces]

\* a - b in uint64: the difference itself, or 2^64 - v when b exceeds a.
U64Sub(a, b) ==
    IF a >= b THEN [wrapped |-> FALSE, v |-> a - b]
    ELSE [wrapped |-> TRUE, v |-> b - a]

\* float64(delta) / elapsed, kept as the exact quotient.
Rate(delta, elapsed) == [delta |-> delta, elapsed |-> elapsed]

RECURSIVE SumField(_, _)
SumField(ifs, tx) ==
    IF ifs = <<>> THEN 0
    ELSE (IF tx THEN Head(ifs).TxBytes ELSE Head(ifs).RxBytes)
         + SumField(Tail(ifs), tx)

\* A ring-buffer step that, when the series is full, cuts off the old
\* entries' last instead of their first.
PushKeepOldest(series, x) ==
    LET kept == IF Len(series) >= maxSamples
                THEN SubSeq(series, 1, maxSamples - 1)
                ELSE series
    IN  Append(kept, x)

\* The ring-buffer step of AddSample: when the series is full, shift it left
\* by one (copy) and cut it to maxSamples-1; then append.
Push(series, x) ==
    LET shifted == [i \in 1 .. Len(series) |->
                       IF i < Len(series) THEN series[i + 1] ELSE series[i]]
        kept    == IF Len(series) >= maxSamples
                   THEN SubSeq(shifted, 1, maxSamples - 1)
                   ELSE series
    IN  Append(kept, x)

NewMetricsHistory ==
    [CPUHistory |-> <<>>, TxRateHistory |-> <<>>, RxRateHistory |-> <<>>,
     lastTxBytes |-> 0, lastRxBytes |-> 0, lastSampleTime |-> 0]

\* MetricsHistory.AddSample(m) at time now
AddSampleOp(h, m, now) ==
    LET totalTx == SumField(m.Interfaces, TRUE)
        totalRx == SumField(m.Interfaces, FALSE)
        rated   == h.lastSampleTime # 0 /\ now - h.lastSampleTime > 0
        elapsed == now - h.lastSampleTime
    IN  [CPUHistory |-> Push(h.CPUHistory, m.CPU),
         TxRateHistory |->
             IF rated
             THEN Push(h.TxRateHistory, Rate(U64Sub(totalTx, h.lastTxBytes), elapsed))
             ELSE h.TxRateHistory,
         RxRateHistory |->
             IF rated
             THEN Push(h.RxRateHistory, Rate(U64Sub(totalRx, h.lastRxBytes), elapsed))
             ELSE h.RxRateHistory,
         lastTxBytes |-> totalTx,
         lastRxBytes |-> totalRx,
         lastSampleTime |-> now]

IfaceNames(m) == {m.Interfaces[i].Name : i \in DOMAIN m.Interfaces}

\* The map a `delete` loop leaves: only the names in keep.
Restrict(f, keep) == [n \in DOMAIN f \cap keep |-> f[n]]

\* The loop over metrics.Interfaces that sets sd.ifaceRates: the rate of an
\* interface that has a previous counter pair.
RatesLoop(rates, last, m, elapsed) ==
    LET cur(n) == CHOOSE i \in DOMAIN m.Interfaces :
                      /\ m.Interfaces[i].Name = n
                      /\ \A j \in DOMAIN m.Interfaces :
                            m.Interfaces[j].Name = n => j <= i
        upd == IfaceNames(m) \cap DOMAIN last
    IN  [n \in DOMAIN rates \cup upd |->
            IF n \in upd
            THEN [txRate |-> Rate(U64Sub(m.Interfaces[cur(n)].TxBytes, last[n].tx), elapsed),
                  rxRate |-> Rate(U64Sub(m.Interfaces[cur(n)].RxBytes, last[n].rx), elapsed)]
            ELSE rates[n]]

\* The same loop's writes to sd.lastIfaceBytes.
BytesLoop(last, m) ==
    LET cur(n) == CHOOSE i \in DOMAIN m.Interfaces :
                      /\ m.Interfaces[i].Name = n
                      /\ \A j \in DOMAIN m.Interfaces :
                            m.Interfaces[j].Name = n => j <= i
    IN  [n \in DOMAIN last \cup IfaceNames(m) |->
            IF n \in IfaceNames(m)
            THEN [tx |-> m.Interfaces[cur(n)].TxBytes,
                  rx |-> m.Interfaces[cur(n)].RxBytes]
            ELSE last[n]]

\* GetIfaceRate(name)
GetIfaceRate(rates, name) ==
    IF name \in DOMAIN rates THEN rates[name]
    ELSE [txRate |-> Rate(U64Sub(0, 0), 1), rxRate |-> Rate(U64Sub(0, 0), 1)]

\* updateLEDs with inclusive health thresholds (>=).
LEDColorsInclusive(screen, m) ==
    LET isLogo    == screen = 0
        isTraffic == screen >= 4 /\ screen <= 6
        memOver(t) == m.MemUsed * 100 >= t * m.MemTotal
    IN  [LED1 |-> IF isLogo THEN "LEDGreen"
                  ELSE IF isTraffic THEN "LEDOrange" ELSE "LEDOff",
         LED2 |-> IF m.CPU >= 90 \/ memOver(90) THEN "LEDRed"
                  ELSE IF m.CPU >= 70 \/ memOver(80) THEN "LEDOrange"
                  ELSE "LEDGreen",
         LED3 |-> IF isLogo THEN "LEDGreen" ELSE "LEDOff"]

\* updateLEDs that counts the Interfaces screen (index 3) as a traffic
\* screen.
LEDColorsTrafficFrom3(screen, m) ==
    LET isLogo    == screen = 0
        isTraffic == screen >= 3 /\ screen <= 6
        memOver(t) == m.MemUsed * 100 > t * m.MemTotal
    IN  [LED1 |-> IF isLogo THEN "LEDGreen"
                  ELSE IF isTraffic THEN "LEDOrange" ELSE "LEDOff",
         LED2 |-> IF m.CPU > 90 \/ memOver(90) THEN "LEDRed"
                  ELSE IF m.CPU > 70 \/ memOver(80) THEN "LEDOrange"
                  ELSE "LEDGreen",
         LED3 |-> IF isLogo THEN "LEDGreen" ELSE "LEDOff"]

\* The colours updateLEDs passes to SetLED for LED1, LED2, LED3.
LEDColors(screen, m) ==
    LET isLogo    == screen = 0
        isTraffic == screen >= 4 /\ screen <= 6
        \* memPct > t, with memPct = MemUsed / MemTotal * 100
        memOver(t) == m.MemUsed * 100 > t * m.MemTotal
    IN  [LED1 |-> IF isLogo THEN "LEDGreen"
                  ELSE IF isTraffic THEN "LEDOrange" ELSE "LEDOff",
         LED2 |-> IF m.CPU > 90 \/ memOver(90) THEN "LEDRed"
                  ELSE IF m.CPU > 70 \/ memOver(80) THEN "LEDOrange"
                  ELSE "LEDGreen",
         LED3 |-> IF isLogo THEN "LEDGreen" ELSE "LEDOff"]

DaemonStarted(runpc) ==
    /\ cachedMetrics = Nil
    /\ history = NewMetricsHistory
    /\ lastIfaceBytes = <<>>
    /\ ifaceRates = <<>>
    /\ lastSampleTime = 0
    /\ frameCount = 0
    /\ currentScreen = 0
    /\ cpc = "idle"
    /\ cm = Nil
    /\ rpc = runpc
    /\ rm = Nil
    /\ ledState = [LED1 |-> "unset", LED2 |-> "unset", LED3 |-> "unset"]
    /\ lastRender = [frame |-> 0, screen |-> 0, metrics |-> Nil, rates |-> <<>>,
                     call |-> 0, midRefresh |-> FALSE]
    /\ clock = 1
    /\ fetchLog = [calls |-> 0, errs |-> 0, last |-> "none", before |-> Nil,
                   beforeTime |-> 0, returned |-> {}, pruned |-> {}]

\* Run has started the collector and both tickers.
InitDaemon == DaemonStarted("select")

\* The same, with the Run goroutine parked in its select: no ticker fires.
InitCollector == DaemonStarted("parked")

FetchBound == IF rpc = "parked" THEN MaxCollect ELSE MaxFetch

\* The daemon when its first fetchMetrics has completed with reading r, one
\* ticker period after the start, and no tick of Run has been served yet.
AfterFirstFetch(r) ==
    LET m   == Snapshot(1, r)
        now == 1 + 5
    IN  /\ cachedMetrics = m
        /\ history = AddSampleOp(NewMetricsHistory, m, now)
        /\ lastIfaceBytes = <<>>
        /\ ifaceRates = <<>>
        /\ lastSampleTime = now
        /\ frameCount = 0
        /\ currentScreen = 0
        /\ cpc = "idle"
        /\ cm = m
        /\ rpc = "select"
        /\ rm = Nil
        /\ ledState = [LED1 |-> "unset", LED2 |-> "unset", LED3 |-> "unset"]
        /\ lastRender = [frame |-> 0, screen |-> 0, metrics |-> Nil,
                         rates |-> <<>>, call |-> 0, midRefresh |-> FALSE]
        /\ clock = now
        /\ fetchLog = [calls |-> 1, errs |-> 0, last |-> "ok", before |-> Nil,
                       beforeTime |-> 0, returned |-> {m}, pruned |-> {}]

\* The collector waits for its 5 s ticker after a first fetch whose reading
\* is one of LedReadings.
InitLeds == \E r \in LedReadings : AfterFirstFetch(r)

\* fetchMetrics, entry: the collector calls sd.metrics.GetMetrics() (at
\* start-up and then on every tick of its 5 s ticker).
GetMetricsCall ==
    /\ cpc = "idle"
    /\ fetchLog.calls < FetchBound
    /\ cpc' = "calling"
    /\ fetchLog' = [fetchLog EXCEPT !.calls = @ + 1]
    /\ UNCHANGED <<cachedMetrics, history, lastIfaceBytes, ifaceRates,
                   lastSampleTime, frameCount, currentScreen, cm, rpc, rm,
                   ledState, lastRender, clock>>
    /\ UNCHANGED <<fbVars, devVars, mnVars, restVars>>

\* GetMetrics returns an error and fetchMetrics blanks the cache.
GetMetricsErrorBlank(d) ==
    /\ cpc = "calling"
    /\ cpc' = "idle"
    /\ clock' = clock + d
    /\ cachedMetrics' = Nil
    /\ fetchLog' = [fetchLog EXCEPT !.errs = @ + 1, !.last = "err",
                                    !.before = cachedMetrics]
    /\ UNCHANGED <<history, lastIfaceBytes, ifaceRates,
                   lastSampleTime, frameCount, currentScreen, cm, rpc, rm,
                   ledState, lastRender>>
    /\ UNCHANGED <<fbVars, devVars, mnVars, restVars>>

\* GetMetrics returns an error: fetchMetrics returns at once.
GetMetricsError(d) ==
    /\ cpc = "calling"
    /\ cpc' = "idle"
    /\ clock' = clock + d
    /\ fetchLog' = [fetchLog EXCEPT !.errs = @ + 1, !.last = "err",
                                    !.before = cachedMetrics]
    /\ UNCHANGED <<cachedMetrics, history, lastIfaceBytes, ifaceRates,
                   lastSampleTime, frameCount, currentScreen, cm, rpc, rm,
                   ledState, lastRender>>
    /\ UNCHANGED <<fbVars, devVars, mnVars, restVars>>

\* GetMetrics returns a snapshot.
GetMetricsReturn(r, d) ==
    /\ cpc = "calling"
    /\ cm' = Snapshot(fetchLog.calls, r)
    /\ cpc' = "store"
    /\ clock' = clock + d
    /\ fetchLog' = [fetchLog EXCEPT !.last = "ok", !.before = cachedMetrics,
                                    !.beforeTime = lastSampleTime,
                                    !.returned = @ \cup {Snapshot(fetchLog.calls, r)}]
    /\ UNCHANGED <<cachedMetrics, history, lastIfaceBytes, ifaceRates,
                   lastSampleTime, frameCount, currentScreen, rpc, rm,
                   ledState, lastRender>>
    /\ UNCHANGED <<fbVars, devVars, mnVars, restVars>>

\* sd.cachedMetrics = metrics
StoreCachedMetrics ==
    /\ cpc = "store"
    /\ cachedMetrics' = cm
    /\ cpc' = "sample"
    /\ UNCHANGED <<history, lastIfaceBytes, ifaceRates, lastSampleTime,
                   frameCount, currentScreen, cm, rpc, rm, ledState,
                   lastRender, clock, fetchLog>>
    /\ UNCHANGED <<fbVars, devVars, mnVars, restVars>>

\* sd.history.AddSample(metrics)
AddSample ==
    /\ cpc = "sample"
    /\ history' = AddSampleOp(history, cm, clock)
    /\ cpc' = "prune"
    /\ UNCHANGED <<cachedMetrics, lastIfaceBytes, ifaceRates, lastSampleTime,
                   frameCount, currentScreen, cm, rpc, rm, ledState,
                   lastRender, clock, fetchLog>>
    /\ UNCHANGED <<fbVars, devVars, mnVars, restVars>>

\* A pruning loop that deletes the stale names from lastIfaceBytes only.
PruneStaleBytesOnly ==
    /\ cpc = "prune"
    /\ LET stale == DOMAIN lastIfaceBytes \ IfaceNames(cm)
       IN  lastIfaceBytes' = Restrict(lastIfaceBytes, DOMAIN lastIfaceBytes \ stale)
    /\ fetchLog' = [fetchLog EXCEPT
                        !.pruned = @ \cup (DOMAIN lastIfaceBytes \ IfaceNames(cm))]
    /\ cpc' = "rates"
    /\ UNCHANGED <<cachedMetrics, history, lastSampleTime, ifaceRates,
                   frameCount, currentScreen, cm, rpc, rm, ledState,
                   lastRender, clock>>
    /\ UNCHANGED <<fbVars, devVars, mnVars, restVars>>

\* The pruning loop: delete from both maps every name of lastIfaceBytes that
\* the snapshot does not report.
PruneStale ==
    /\ cpc = "prune"
    /\ LET stale == DOMAIN lastIfaceBytes \ IfaceNames(cm)
       IN  /\ lastIfaceBytes' = Restrict(lastIfaceBytes, DOMAIN lastIfaceBytes \ stale)
           /\ ifaceRates' = Restrict(ifaceRates, DOMAIN ifaceRates \ stale)
    /\ fetchLog' = [fetchLog EXCEPT
                        !.pruned = @ \cup (DOMAIN lastIfaceBytes \ IfaceNames(cm))]
    /\ cpc' = "rates"
    /\ UNCHANGED <<cachedMetrics, history, lastSampleTime,
                   frameCount, currentScreen, cm, rpc, rm, ledState,
                   lastRender, clock>>
    /\ UNCHANGED <<fbVars, devVars, mnVars, restVars>>

\* The rate computation and sd.lastSampleTime = now, to the end of
\* fetchMetrics.
ComputeRates ==
    /\ cpc = "rates"
    /\ LET now     == clock
           elapsed == now - lastSampleTime
       IN  /\ IF lastSampleTime # 0 /\ elapsed > 0
              THEN /\ ifaceRates' = RatesLoop(ifaceRates, lastIfaceBytes, cm, elapsed)
                   /\ lastIfaceBytes' = BytesLoop(lastIfaceBytes, cm)
              ELSE UNCHANGED <<ifaceRates, lastIfaceBytes>>
           /\ lastSampleTime' = now
    /\ cpc' = "idle"
    /\ UNCHANGED <<cachedMetrics, history,
                   frameCount, currentScreen, cm, rpc, rm, ledState,
                   lastRender, clock, fetchLog>>
    /\ UNCHANGED <<fbVars, devVars, mnVars, restVars>>

\* An animation tick that is served only when no GetMetrics call is under
\* way (metrics fetched on the render path).
AnimTickWaitsForMetrics ==
    /\ rpc = "select"
    /\ cpc # "calling"
    /\ frameCount < MaxFrames
    /\ frameCount' = frameCount + 1
    /\ rm' = cachedMetrics
    /\ rpc' = IF cachedMetrics = Nil THEN "select" ELSE "leds"
    /\ UNCHANGED <<cachedMetrics, history, lastIfaceBytes, ifaceRates,
                   lastSampleTime, currentScreen, cpc, cm, ledState,
                   lastRender, clock, fetchLog>>
    /\ UNCHANGED <<fbVars, devVars, mnVars, restVars>>

\* An animation tick whose render, finding no snapshot, goes on with an
\* empty Metrics value instead of returning.
AnimTickRendersEmpty ==
    /\ rpc = "select"
    /\ frameCount < MaxFrames
    /\ frameCount' = frameCount + 1
    /\ rm' = IF cachedMetrics = Nil
             THEN [id |-> 0, CPU |-> 0, MemUsed |-> 0, MemTotal |-> 0,
                   Interfaces |-> <<>>]
             ELSE cachedMetrics
    /\ rpc' = "leds"
    /\ UNCHANGED <<cachedMetrics, history, lastIfaceBytes, ifaceRates,
                   lastSampleTime, currentScreen, cpc, cm, ledState,
                   lastRender, clock, fetchLog>>
    /\ UNCHANGED <<fbVars, devVars, mnVars, restVars>>

\* case <-animTicker.C: sd.frameCount++, then the head of render:
\* metrics := sd.cachedMetrics; return when it is nil.
AnimTick ==
    /\ rpc = "select"
    /\ frameCount < MaxFrames
    /\ frameCount' = frameCount + 1
    /\ rm' = cachedMetrics
    /\ rpc' = IF cachedMetrics = Nil THEN "select" ELSE "leds"
    /\ UNCHANGED <<cachedMetrics, history, lastIfaceBytes, ifaceRates,
                   lastSampleTime, currentScreen, cpc, cm, ledState,
                   lastRender, clock, fetchLog>>
    /\ UNCHANGED <<fbVars, devVars, mnVars, restVars>>

\* sd.updateLEDs(metrics)
UpdateLEDs ==
    /\ rpc = "leds"
    /\ ledState' = LEDColors(currentScreen, rm)
    /\ rpc' = "screen"
    /\ UNCHANGED <<cachedMetrics, history, lastIfaceBytes, ifaceRates,
                   lastSampleTime, frameCount, currentScreen, cpc, cm, rm,
                   lastRender, clock, fetchLog>>
    /\ UNCHANGED <<fbVars, devVars, mnVars, restVars>>

\* What a screen's Render finds in the fields of the *Metrics it was given.
\* The struct is filled by GetMetrics in the collector goroutine and handed
\* over by the plain assignment sd.cachedMetrics = metrics; render loads the
\* pointer with a plain read.  Nothing orders the collector's last field
\* write (m.Interfaces = interfaces, the statement before GetMetrics
\* returns) before the pointer store for a reader on another CPU, so until
\* fetchMetrics has returned a screen that ranges over m.Interfaces
\* (Interfaces, WAN, Tunnel, LAN) finds either the slice or the zero value
\* the struct was allocated with.  The fields written earlier are followed
\* by the system calls of the later collectors and are always found.
FieldsSeen(m, screen) ==
    IF screen >= 3 /\ m = cm /\ cpc \in {"sample", "prune", "rates"}
    THEN {m, [m EXCEPT !.Interfaces = <<>>]}
    ELSE {m}

\* sd.screens[sd.currentScreen].Render(sd.display, metrics): the screen
\* draws the snapshot it was given with the frame number; a traffic screen
\* also reads GetIfaceRate for the snapshot's interfaces.
RenderScreen ==
    /\ rpc = "screen"
    /\ IF currentScreen < NumScreens
       THEN \E seen \in FieldsSeen(rm, currentScreen) :
              lastRender' =
               [frame |-> frameCount, screen |-> currentScreen, metrics |-> seen,
                rates |-> IF currentScreen >= 4
                          THEN [n \in IfaceNames(seen) |-> GetIfaceRate(ifaceRates, n)]
                          ELSE <<>>,
                call |-> IF cpc = "calling" THEN fetchLog.calls ELSE 0,
                midRefresh |-> cpc \in {"sample", "prune", "rates"}]
       ELSE UNCHANGED lastRender
    /\ rpc' = "select"
    /\ UNCHANGED <<cachedMetrics, history, lastIfaceBytes, ifaceRates,
                   lastSampleTime, frameCount, currentScreen, cpc, cm, rm,
                   ledState, clock, fetchLog>>
    /\ UNCHANGED <<fbVars, devVars, mnVars, restVars>>

\* A rotation tick that increments the index without wrapping.
RotateTickNoWrap ==
    /\ rpc = "select"
    /\ currentScreen' = currentScreen + 1
    /\ UNCHANGED <<cachedMetrics, history, lastIfaceBytes, ifaceRates,
                   lastSampleTime, frameCount, cpc, cm, rpc, rm,
                   ledState, lastRender, clock, fetchLog>>
    /\ UNCHANGED <<fbVars, devVars, mnVars, restVars>>

\* case <-rotateTicker.C
RotateTick ==
    /\ rpc = "select"
    /\ currentScreen' = (currentScreen + 1) % NumScreens
    /\ UNCHANGED <<cachedMetrics, history, lastIfaceBytes, ifaceRates,
                   lastSampleTime, frameCount, cpc, cm, rpc, rm,
                   ledState, lastRender, clock, fetchLog>>
    /\ UNCHANGED <<fbVars, devVars, mnVars, restVars>>

NextDaemon ==
    \/ GetMetricsCall
    \/ \E d \in Durations : GetMetricsError(d)
    \/ \E r \in Readings, d \in Durations : GetMetricsReturn(r, d)
    \/ StoreCachedMetrics
    \/ AddSample
    \/ PruneStale
    \/ ComputeRates
    \/ AnimTick
    \/ UpdateLEDs
    \/ RenderScreen
    \/ RotateTick

(***************************************************************************)
(* Menu: the item list with Disabled flags, the selection and the scroll   *)
(* window.  SelectNext and SelectPrevious are loops; each is one step that *)
(* runs the loop to its exit, or finds that it has none.                   *)
(***************************************************************************)
\* Largest number of items of a menu.
MaxItems == 4

\* Values given to SetMaxVisible.
VisibleSizes == {1, 2, 6}

MenuItem(disabled) == [Disabled |-> disabled]

\* Every non-empty item list of at most n items.
ItemLists(n) ==
    UNION { [1 .. k -> {MenuItem(TRUE), MenuItem(FALSE)}] : k \in 1 .. n }

\* A four-item menu whose item 2 is disabled.
FourItems ==
    <<MenuItem(FALSE), MenuItem(FALSE), MenuItem(TRUE), MenuItem(FALSE)>>

\* NewMenu(title, items)
NewMenu(lists) ==
    /\ Items \in lists
    /\ selected = 0
    /\ scrollOffset = 0
    /\ maxVisible = 6
    /\ navpc = "ready"
    /\ menuLog = [op |-> "NewMenu", prev |-> 0]

InitNavIdle == NewMenu({FourItems})

InitNav == NewMenu(ItemLists(MaxItems))

allDisabled(items) == \A i \in DOMAIN items : items[i].Disabled

\* m.selected++ / m.selected-- with the wrap of the loop body.
StepSelected(sel, n, forward) ==
    IF forward THEN (IF sel + 1 >= n THEN 0 ELSE sel + 1)
    ELSE (IF sel - 1 < 0 THEN n - 1 ELSE sel - 1)

\* The `for` loop of SelectNext (forward) and SelectPrevious: the selection
\* it exits with, or returns = FALSE when it comes back to an iteration it
\* has already made (after Len(items) rounds) without reaching a break.
\* m.Items[m.selected] with m.selected outside the slice is a run-time
\* panic (index out of range): panics = TRUE, and the loop goes no further.
RECURSIVE SelectLoop(_, _, _, _)
SelectLoop(items, sel, forward, rounds) ==
    LET s == StepSelected(sel, Len(items), forward)
    IN  IF s < 0 \/ s >= Len(items)
        THEN [selected |-> s, returns |-> FALSE, panics |-> TRUE]
        ELSE IF ~items[s + 1].Disabled
        THEN [selected |-> s, returns |-> TRUE, panics |-> FALSE]
        ELSE IF allDisabled(items)
        THEN [selected |-> s, returns |-> TRUE, panics |-> FALSE]
        ELSE IF rounds = 0
        THEN [selected |-> s, returns |-> FALSE, panics |-> FALSE]
        ELSE SelectLoop(items, s, forward, rounds - 1)

\* An updateScroll whose lower test leaves the selection one row below the
\* window.
updateScrollOffByOne(sel, offset, visible) ==
    LET down == IF sel > offset + visible THEN sel - visible + 1 ELSE offset
    IN  IF sel < down THEN sel ELSE down

\* updateScroll
updateScroll(sel, offset, visible) ==
    LET down == IF sel >= offset + visible THEN sel - visible + 1 ELSE offset
    IN  IF sel < down THEN sel ELSE down

\* A SelectNext that moves one step and never looks at Disabled.
SelectNextNoSkip ==
    /\ navpc = "ready"
    /\ LET s == StepSelected(selected, Len(Items), TRUE)
       IN  /\ selected' = s
           /\ scrollOffset' = updateScroll(s, scrollOffset, maxVisible)
    /\ menuLog' = [op |-> "SelectNext", prev |-> selected]
    /\ UNCHANGED <<Items, maxVisible, navpc>>
    /\ UNCHANGED <<fbVars, devVars, dmVars, restVars>>

\* SelectNext: the loop, then updateScroll.
SelectNext ==
    /\ navpc = "ready"
    /\ LET r == SelectLoop(Items, selected, TRUE, Len(Items))
       IN  /\ selected' = r.selected
           /\ scrollOffset' = IF r.returns
                              THEN updateScroll(r.selected, scrollOffset, maxVisible)
                              ELSE scrollOffset
           /\ navpc' = IF r.panics THEN "panicked"
                       ELSE IF r.returns THEN "ready" ELSE "hung"
    /\ menuLog' = [op |-> "SelectNext", prev |-> selected]
    /\ UNCHANGED <<Items, maxVisible>>
    /\ UNCHANGED <<fbVars, devVars, dmVars, restVars>>

\* SelectPrevious: the loop, then updateScroll.
SelectPrevious ==
    /\ navpc = "ready"
    /\ LET r == SelectLoop(Items, selected, FALSE, Len(Items))
       IN  /\ selected' = r.selected
           /\ scrollOffset' = IF r.returns
                              THEN updateScroll(r.selected, scrollOffset, maxVisible)
                              ELSE scrollOffset
           /\ navpc' = IF r.panics THEN "panicked"
                       ELSE IF r.returns THEN "ready" ELSE "hung"
    /\ menuLog' = [op |-> "SelectPrevious", prev |-> selected]
    /\ UNCHANGED <<Items, maxVisible>>
    /\ UNCHANGED <<fbVars, devVars, dmVars, restVars>>

SetMaxVisible(n) ==
    /\ navpc = "ready"
    /\ maxVisible' = n
    /\ menuLog' = [op |-> "SetMaxVisible", prev |-> selected]
    /\ UNCHANGED <<Items, selected, scrollOffset, navpc>>
    /\ UNCHANGED <<fbVars, devVars, dmVars, restVars>>

NextNav ==
    \/ SelectNext
    \/ SelectPrevious
    \/ \E n \in VisibleSizes : SetMaxVisible(n)

\* NewMenu with any item list, the empty one included.
InitNavAny == NewMenu(ItemLists(MaxItems) \cup {<<>>})

\* Execute on the menu alone: it reads Items[selected] only inside
\*   if m.selected >= 0 && m.selected < len(m.Items)
\* and changes nothing of the menu; menuLog.item is the index it read
\* (-1 when it read none).
MenuExecute ==
    /\ navpc = "ready"
    /\ menuLog' = [op |-> "Execute", prev |-> selected,
                   item |-> IF selected >= 0 /\ selected < Len(Items)
                            THEN selected ELSE -1]
    /\ UNCHANGED <<Items, selected, scrollOffset, maxVisible, navpc>>
    /\ UNCHANGED <<fbVars, devVars, dmVars, restVars>>

NextNavAny ==
    \/ SelectNext
    \/ SelectPrevious
    \/ \E n \in VisibleSizes : SetMaxVisible(n)
    \/ MenuExecute

(***************************************************************************)
(* MenuController.Run over a tree of menus.  Each Menu of the tree keeps   *)
(* its own selected and scrollOffset; one button handled by the loop of    *)
(* Run is one step, the Render that ends the iteration included.           *)
(***************************************************************************)
NoMenu == "nil"

\* MenuItem: Disabled, SubMenu (a menu of the tree or nil), Action (set or
\* nil).
ActionItem == [Disabled |-> FALSE, SubMenu |-> NoMenu, Action |-> TRUE]

DisabledItem == [Disabled |-> TRUE, SubMenu |-> NoMenu, Action |-> TRUE]

ValueItem == [Disabled |-> FALSE, SubMenu |-> NoMenu, Action |-> FALSE]

SubMenuItem(m) == [Disabled |-> FALSE, SubMenu |-> m, Action |-> FALSE]

\* The menus built at start-up: the main menu, its Display submenu with the
\* LED Control submenu below it (both attached with AddSubMenu, which sets
\* Parent), and a submenu attached with AddItem, whose Parent stays nil.
Tree ==
    [main    |-> [Items  |-> <<SubMenuItem("display"), ActionItem,
                               DisabledItem, ValueItem, SubMenuItem("info")>>,
                  Parent |-> NoMenu],
     display |-> [Items  |-> <<ActionItem, ActionItem, ActionItem, DisabledItem,
                               ActionItem, ActionItem, ActionItem,
                               SubMenuItem("led")>>,
                  Parent |-> "main"],
     led     |-> [Items  |-> <<ActionItem, ActionItem>>,
                  Parent |-> "display"],
     info    |-> [Items  |-> <<ValueItem, ActionItem>>,
                  Parent |-> NoMenu]]

MenuIds == DOMAIN Tree

\* The buttons the panel sends, and a byte that is none of them.
Buttons == {"Help", "Left", "Esc", "Up", "Enter", "Down", "Right", "0x7A"}

\* NewMenu for every menu of the tree, then NewMenuController(root).
NewMenuController ==
    /\ menus = [m \in MenuIds |-> [selected |-> 0, scrollOffset |-> 0]]
    /\ currentMenu = "main"
    /\ mcpc = "new"
    /\ mcret = "none"
    /\ mcLog = [btn |-> "none", n |-> 0, rendered |-> "no", execErr |-> FALSE,
                prevMenu |-> "main", prevErr |-> FALSE]

\* The item Execute looks at: Items[selected] of the current menu.
SelectedItem == Tree[currentMenu].Items[menus[currentMenu].selected + 1]

\* Execute(): the submenu to enter (or nil) and whether an Action is called.
Execute ==
    IF SelectedItem.Disabled THEN [subMenu |-> NoMenu, calls |-> FALSE]
    ELSE IF SelectedItem.SubMenu # NoMenu
         THEN [subMenu |-> SelectedItem.SubMenu, calls |-> FALSE]
    ELSE [subMenu |-> NoMenu, calls |-> SelectedItem.Action]

\* The end of a loop iteration of Run: Render when needsRender, and the
\* return of its error.
EndOfIteration(btn, needsRender, renderFails, execErr) ==
    /\ mcLog' = [btn |-> btn, n |-> 1 - mcLog.n,
                 rendered |-> IF ~needsRender THEN "no"
                              ELSE IF renderFails THEN "failed" ELSE "yes",
                 execErr |-> execErr, prevMenu |-> currentMenu,
                 prevErr |-> mcLog.execErr]
    /\ mcpc' = IF needsRender /\ renderFails THEN "returned" ELSE "loop"
    /\ mcret' = IF needsRender /\ renderFails THEN "renderError" ELSE mcret

\* Run up to its loop: ButtonChannel, then the initial Render.
RunStart(renderFails) ==
    /\ mcpc = "new"
    /\ mcpc' = IF renderFails THEN "returned" ELSE "loop"
    /\ mcret' = IF renderFails THEN "renderError" ELSE mcret
    /\ mcLog' = [mcLog EXCEPT !.rendered = IF renderFails THEN "failed" ELSE "yes"]
    /\ UNCHANGED <<menus, currentMenu>>
    /\ UNCHANGED <<fbVars, devVars, dmVars, mnVars, brVars, ssVars, hsVars>>

\* case ButtonUp / ButtonDown: SelectPrevious / SelectNext on currentMenu.
PressSelect(btn, renderFails) ==
    /\ mcpc = "loop"
    /\ btn \in {"Up", "Down"}
    /\ LET items == Tree[currentMenu].Items
           cur == menus[currentMenu]
           r == SelectLoop(items, cur.selected, btn = "Down", Len(items))
       IN  menus' = [menus EXCEPT ![currentMenu] =
                        [selected |-> r.selected,
                         scrollOffset |-> updateScroll(r.selected,
                                                       cur.scrollOffset, 6)]]
    /\ EndOfIteration(btn, TRUE, renderFails, FALSE)
    /\ UNCHANGED currentMenu
    /\ UNCHANGED <<fbVars, devVars, dmVars, mnVars, brVars, ssVars, hsVars>>

\* A case ButtonEnter, ButtonRight that sets the selection of the submenu
\* it enters back to its first item.
PressEnterResets(btn, actionFails, renderFails) ==
    /\ mcpc = "loop"
    /\ btn \in {"Enter", "Right"}
    /\ LET e == Execute
           err == e.calls /\ actionFails
       IN  /\ currentMenu' = IF e.subMenu # NoMenu THEN e.subMenu ELSE currentMenu
           /\ menus' = IF e.subMenu # NoMenu
                       THEN [menus EXCEPT ![e.subMenu] =
                                [selected |-> 0, scrollOffset |-> 0]]
                       ELSE menus
           /\ EndOfIteration(btn, ~err, renderFails, err)
    /\ UNCHANGED <<fbVars, devVars, dmVars, mnVars, brVars, ssVars, hsVars>>

\* A case ButtonEnter, ButtonRight that returns the error of the action.
PressEnterReturnsError(btn, actionFails, renderFails) ==
    /\ mcpc = "loop"
    /\ btn \in {"Enter", "Right"}
    /\ LET e == Execute
           err == e.calls /\ actionFails
       IN  /\ currentMenu' = IF e.subMenu # NoMenu THEN e.subMenu ELSE currentMenu
           /\ IF err
              THEN /\ mcLog' = [btn |-> btn, n |-> 1 - mcLog.n, rendered |-> "no",
                                execErr |-> TRUE, prevMenu |-> currentMenu,
                                prevErr |-> mcLog.execErr]
                   /\ mcpc' = "returned"
                   /\ mcret' = "actionError"
              ELSE EndOfIteration(btn, TRUE, renderFails, FALSE)
    /\ UNCHANGED menus
    /\ UNCHANGED <<fbVars, devVars, dmVars, mnVars, brVars, ssVars, hsVars>>

\* case ButtonEnter, ButtonRight: Execute; an error clears needsRender, a
\* submenu becomes currentMenu.
PressEnter(btn, actionFails, renderFails) ==
    /\ mcpc = "loop"
    /\ btn \in {"Enter", "Right"}
    /\ LET e == Execute
           err == e.calls /\ actionFails
       IN  /\ currentMenu' = IF e.subMenu # NoMenu THEN e.subMenu ELSE currentMenu
           /\ EndOfIteration(btn, ~err, renderFails, err)
    /\ UNCHANGED menus
    /\ UNCHANGED <<fbVars, devVars, dmVars, mnVars, brVars, ssVars, hsVars>>

\* A case ButtonLeft, ButtonEsc that leaves Run whatever the Parent is.
PressBackAlwaysExits(btn, renderFails) ==
    /\ mcpc = "loop"
    /\ btn \in {"Left", "Esc"}
    /\ mcLog' = [btn |-> btn, n |-> 1 - mcLog.n, rendered |-> "no",
                 execErr |-> FALSE, prevMenu |-> currentMenu,
                 prevErr |-> mcLog.execErr]
    /\ mcpc' = "returned"
    /\ mcret' = "nil"
    /\ UNCHANGED <<menus, currentMenu>>
    /\ UNCHANGED <<fbVars, devVars, dmVars, mnVars, brVars, ssVars, hsVars>>

\* case ButtonLeft, ButtonEsc: to the Parent, or `return nil` at the root.
PressBack(btn, renderFails) ==
    /\ mcpc = "loop"
    /\ btn \in {"Left", "Esc"}
    /\ IF Tree[currentMenu].Parent # NoMenu
       THEN /\ currentMenu' = Tree[currentMenu].Parent
            /\ EndOfIteration(btn, TRUE, renderFails, FALSE)
       ELSE /\ mcLog' = [btn |-> btn, n |-> 1 - mcLog.n, rendered |-> "no",
                         execErr |-> FALSE, prevMenu |-> currentMenu,
                         prevErr |-> mcLog.execErr]
            /\ mcpc' = "returned"
            /\ mcret' = "nil"
            /\ UNCHANGED currentMenu
    /\ UNCHANGED menus
    /\ UNCHANGED <<fbVars, devVars, dmVars, mnVars, brVars, ssVars, hsVars>>

\* default: needsRender = false.
PressOther(btn) ==
    /\ mcpc = "loop"
    /\ btn \in {"Help", "0x7A"}
    /\ EndOfIteration(btn, FALSE, FALSE, FALSE)
    /\ UNCHANGED <<menus, currentMenu>>
    /\ UNCHANGED <<fbVars, devVars, dmVars, mnVars, brVars, ssVars, hsVars>>

NextCtl ==
    \/ \E f \in BOOLEAN : RunStart(f)
    \/ \E b \in Buttons, f \in BOOLEAN : PressSelect(b, f)
    \/ \E b \in Buttons, a \in BOOLEAN, f \in BOOLEAN : PressEnter(b, a, f)
    \/ \E b \in Buttons, f \in BOOLEAN : PressBack(b, f)
    \/ \E b \in Buttons : PressOther(b)


(***************************************************************************)
(* ButtonChannel: the poll goroutine, the buffered channel ch, the stop    *)
(* channel, and the caller that receives from ch and calls stop.  The      *)
(* bytes the panel sends are numbered, so that a button is told from a     *)
(* later button with the same code.                                        *)
(***************************************************************************)
\* Number of bytes the panel sends.
MaxBytes == 13

ButtonNone == 0

\* make(chan Button, 10)
chanCap == 10

\* buf := make([]byte, 16)
bufSize == 16

\* The i-th byte from the panel: the third is 0x00, the others run through
\* the button codes 0x41 .. 0x47.
PanelByte(i) == [i |-> i, code |-> IF i = 3 THEN ButtonNone ELSE 65 + (i % 7)]

\* ButtonChannel() has been called on a ButtonReader ("device") or on a
\* SessionButtonReader ("session"): the channels are made, the goroutine is
\* at the head of its loop.
ButtonChannel(kinds) ==
    /\ reader \in kinds
    /\ stdout = <<>>
    /\ ch = <<>>
    /\ chClosed = FALSE
    /\ stop = "open"
    /\ pollpc = "select"
    /\ pollbuf = <<>>
    /\ consumerpc = "running"
    /\ got = <<>>
    /\ brLog = [arrived |-> 0, accepted |-> <<>>, dropped |-> <<>>,
                stops |-> 0]

InitButtonsIdle == ButtonChannel({"none"})

InitButtons == ButtonChannel({"device", "session"})

\* No goroutine has panicked: the process is running.
Running == consumerpc # "panicked"

\* The panel sends its next byte; cu writes it to the stdout pipe.
Arrive ==
    /\ Running
    /\ reader = "session"
    /\ brLog.arrived < MaxBytes
    /\ stdout' = Append(stdout, PanelByte(brLog.arrived + 1))
    /\ brLog' = [brLog EXCEPT !.arrived = @ + 1]
    /\ UNCHANGED <<reader, ch, chClosed, stop, pollpc, pollbuf, consumerpc, got>>
    /\ UNCHANGED <<fbVars, devVars, dmVars, mnVars, mcVars, ssVars, hsVars>>

\* cu exits (PersistentSession.Close, or the line drops): the stdout pipe is
\* at end of file once the bytes in it are read.
SessionEnds ==
    /\ Running
    /\ reader = "session"
    /\ reader' = "ended"
    /\ UNCHANGED <<stdout, ch, chClosed, stop, pollpc, pollbuf, consumerpc, got,
                   brLog>>
    /\ UNCHANGED <<fbVars, devVars, dmVars, mnVars, mcVars, ssVars, hsVars>>

\* select { case <-stop: return (and the deferred close(ch)); default: }
PollSelect ==
    /\ Running
    /\ pollpc = "select"
    /\ IF stop = "closed"
       THEN pollpc' = "exited" /\ chClosed' = TRUE
       ELSE pollpc' = "read" /\ UNCHANGED chClosed
    /\ UNCHANGED <<reader, stdout, ch, stop, pollbuf, consumerpc, got, brLog>>
    /\ UNCHANGED <<fbVars, devVars, dmVars, mnVars, mcVars, ssVars, hsVars>>

\* A Read that hands over the bytes on the line for either reader.
PollReadFromLine ==
    /\ Running
    /\ pollpc = "read"
    /\ IF stdout # <<>>
       THEN LET n == IF Len(stdout) < bufSize THEN Len(stdout) ELSE bufSize
            IN  /\ pollbuf' = SubSeq(stdout, 1, n)
                /\ stdout' = SubSeq(stdout, n + 1, Len(stdout))
                /\ pollpc' = "process"
       ELSE /\ pollpc' = "sleep"
            /\ UNCHANGED <<stdout, pollbuf>>
    /\ UNCHANGED <<reader, ch, chClosed, stop, consumerpc, got, brLog>>
    /\ UNCHANGED <<fbVars, devVars, dmVars, mnVars, mcVars, ssVars, hsVars>>

\* n, err := Read(buf).  Device.Read returns (0, io.EOF) at once.
\* PersistentSession.Read is stdout.Read: it returns the bytes in the pipe,
\* at most len(buf); with none it waits, and returns an error only at end of
\* file.
PollRead ==
    /\ Running
    /\ pollpc = "read"
    /\ IF reader = "device"
       THEN /\ pollpc' = "sleep"
            /\ UNCHANGED <<stdout, pollbuf>>
       ELSE IF stdout # <<>>
       THEN LET n == IF Len(stdout) < bufSize THEN Len(stdout) ELSE bufSize
            IN  /\ pollbuf' = SubSeq(stdout, 1, n)
                /\ stdout' = SubSeq(stdout, n + 1, Len(stdout))
                /\ pollpc' = "process"
       ELSE /\ reader = "ended"
            /\ pollpc' = "sleep"
            /\ UNCHANGED <<stdout, pollbuf>>
    /\ UNCHANGED <<reader, ch, chClosed, stop, consumerpc, got, brLog>>
    /\ UNCHANGED <<fbVars, devVars, dmVars, mnVars, mcVars, ssVars, hsVars>>

\* A loop body that sends whether or not the channel has room.
ProcessByteNoDrop ==
    /\ Running
    /\ pollpc = "process"
    /\ LET b == Head(pollbuf)
       IN  IF b.code # ButtonNone
           THEN /\ ch' = Append(ch, b)
                /\ brLog' = [brLog EXCEPT !.accepted = Append(@, b)]
           ELSE UNCHANGED <<ch, brLog>>
    /\ pollbuf' = Tail(pollbuf)
    /\ pollpc' = IF Tail(pollbuf) = <<>> THEN "sleep" ELSE "process"
    /\ UNCHANGED <<reader, stdout, chClosed, stop, consumerpc, got>>
    /\ UNCHANGED <<fbVars, devVars, dmVars, mnVars, mcVars, ssVars, hsVars>>

\* One turn of `for i := 0; i < n; i++`: btn := Button(buf[i]); a btn other
\* than ButtonNone is sent by select { case ch <- btn: default: }.
ProcessByte ==
    /\ Running
    /\ pollpc = "process"
    /\ LET b == Head(pollbuf)
       IN  IF b.code # ButtonNone
           THEN IF Len(ch) < chanCap
                THEN /\ ch' = Append(ch, b)
                     /\ brLog' = [brLog EXCEPT !.accepted = Append(@, b)]
                ELSE /\ brLog' = [brLog EXCEPT
                                    !.dropped = Append(@, [b |-> b, len |-> Len(ch)])]
                     /\ UNCHANGED ch
           ELSE UNCHANGED <<ch, brLog>>
    /\ pollbuf' = Tail(pollbuf)
    /\ pollpc' = IF Tail(pollbuf) = <<>> THEN "sleep" ELSE "process"
    /\ UNCHANGED <<reader, stdout, chClosed, stop, consumerpc, got>>
    /\ UNCHANGED <<fbVars, devVars, dmVars, mnVars, mcVars, ssVars, hsVars>>

\* time.Sleep(10 * time.Millisecond)
Sleep ==
    /\ Running
    /\ pollpc = "sleep"
    /\ pollpc' = "select"
    /\ UNCHANGED <<reader, stdout, ch, chClosed, stop, pollbuf, consumerpc, got,
                   brLog>>
    /\ UNCHANGED <<fbVars, devVars, dmVars, mnVars, mcVars, ssVars, hsVars>>

\* The caller receives a button: btn := <-buttons.  A receive takes the
\* oldest value in the buffer, whether or not the channel has been closed.
Receive ==
    /\ Running
    /\ ch # <<>>
    /\ got' = Append(got, Head(ch))
    /\ ch' = Tail(ch)
    /\ UNCHANGED <<reader, stdout, chClosed, stop, pollpc, pollbuf, consumerpc,
                   brLog>>
    /\ UNCHANGED <<fbVars, devVars, dmVars, mnVars, mcVars, ssVars, hsVars>>

\* The caller calls stop(): close(stop).
Stop ==
    /\ Running
    /\ stop = "open"
    /\ stop' = "closed"
    /\ brLog' = [brLog EXCEPT !.stops = @ + 1]
    /\ UNCHANGED <<reader, stdout, ch, chClosed, pollpc, pollbuf, consumerpc, got>>
    /\ UNCHANGED <<fbVars, devVars, dmVars, mnVars, mcVars, ssVars, hsVars>>

\* The caller calls stop() again: close of a closed channel panics.
StopAgain ==
    /\ Running
    /\ stop = "closed"
    /\ consumerpc' = "panicked"
    /\ brLog' = [brLog EXCEPT !.stops = @ + 1]
    /\ UNCHANGED <<reader, stdout, ch, chClosed, stop, pollpc, pollbuf, got>>
    /\ UNCHANGED <<fbVars, devVars, dmVars, mnVars, mcVars, ssVars, hsVars>>

\* The steps of the poll goroutine.
PollStep == PollSelect \/ PollRead \/ ProcessByte \/ Sleep

NextButtons ==
    \/ Arrive
    \/ SessionEnds
    \/ PollSelect
    \/ PollRead
    \/ ProcessByte
    \/ Sleep
    \/ Receive
    \/ Stop
    \/ StopAgain

\* The same with a caller that calls stop once.
NextButtonsOneStop ==
    \/ Arrive
    \/ SessionEnds
    \/ PollSelect
    \/ PollRead
    \/ ProcessByte
    \/ Sleep
    \/ Receive
    \/ Stop

(***************************************************************************)
(* PersistentSession: every StartSession that succeeds starts a cu process *)
(* of its own and returns a session for it; the Device keeps no reference  *)
(* to the sessions it has started.                                         *)
(***************************************************************************)
\* Number of StartSession calls that succeed.
MaxSessions == 4

\* What the system may have at the serial path: a device the process can
\* open for read/write, nothing, or a device it has no permission for.
PortStates == {"present", "missing", "denied"}

\* Open(portPath): builds the Device from the path and returns (d, nil); it
\* does not touch the path.
Open(p) == [device |-> TRUE, err |-> "nil"]

\* Open has returned for a path in one of the given states; no
\* StartSession has been called.
Opened(states) ==
    /\ port \in states
    /\ openRet = Open(port)
    /\ sessions = <<>>
    /\ ssLog = [op |-> "Open", k |-> 0, err |-> FALSE]

InitSessionsIdle == Opened({"present"})

InitSessions == Opened(PortStates)

\* d.StartSession(): new pipes and cmd.Start(); an error of any of the
\* three is returned with no session; otherwise a new session is returned.
StartSession(fails) ==
    /\ Len(sessions) < MaxSessions
    /\ IF fails
       THEN /\ ssLog' = [op |-> "StartSession", k |-> 0, err |-> TRUE]
            /\ UNCHANGED sessions
       ELSE /\ sessions' = Append(sessions, [live |-> TRUE])
            /\ ssLog' = [op |-> "StartSession", k |-> Len(sessions) + 1,
                         err |-> FALSE]
    /\ UNCHANGED <<port, openRet>>
    /\ UNCHANGED <<fbVars, devVars, dmVars, mnVars, mcVars, brVars, hsVars>>

\* ps.Write(data) on the k-th session: stdin.Write, which fails on a closed
\* pipe and may fail on an open one.
SessionWrite(k, fails) ==
    /\ k \in DOMAIN sessions
    /\ ssLog' = [op |-> "Write", k |-> k, err |-> fails \/ ~sessions[k].live]
    /\ UNCHANGED sessions
    /\ UNCHANGED <<port, openRet>>
    /\ UNCHANGED <<fbVars, devVars, dmVars, mnVars, mcVars, brVars, hsVars>>

\* ps.Close() on the k-th session: stdin closed, cu waited for or killed;
\* returns nil.
SessionClose(k) ==
    /\ k \in DOMAIN sessions
    /\ sessions' = [sessions EXCEPT ![k].live = FALSE]
    /\ ssLog' = [op |-> "Close", k |-> k, err |-> FALSE]
    /\ UNCHANGED <<port, openRet>>
    /\ UNCHANGED <<fbVars, devVars, dmVars, mnVars, mcVars, brVars, hsVars>>

NextSession ==
    \/ \E f \in BOOLEAN : StartSession(f)
    \/ \E k \in 1 .. MaxSessions, f \in BOOLEAN : SessionWrite(k, f)
    \/ \E k \in 1 .. MaxSessions : SessionClose(k)

(***************************************************************************)
(* A MetricsHistory of the daemon's size, fed sample after sample.         *)
(***************************************************************************)
\* Number of samples added.
MaxAdded == 14

\* The k-th sample: CPU c, and one interface whose counters grow by a
\* different amount every time.
SampleMetrics(k, c) ==
    [id |-> k, CPU |-> c, MemUsed |-> 4, MemTotal |-> 8,
     Interfaces |-> <<[Name |-> "em0", TxBytes |-> 100 * k * k,
                       RxBytes |-> 10 * k * k]>>]

\* NewMetricsHistory(12)
InitHistory ==
    /\ hist = NewMetricsHistory
    /\ histLog = <<>>

\* h.AddSample(m), five seconds after the sample before.
HistoryAddSample(c) ==
    /\ Len(histLog) < MaxAdded
    /\ LET k == Len(histLog) + 1
       IN  hist' = AddSampleOp(hist, SampleMetrics(k, c), 5 * k)
    /\ histLog' = Append(histLog, c)
    /\ UNCHANGED <<fbVars, devVars, dmVars, mnVars, mcVars, brVars, ssVars>>

NextHistory ==
    \E c \in {Len(histLog) + 1, Len(histLog) + 51} : HistoryAddSample(c)

\* The parts of the program a specification leaves aside, as constructed.
InitRest ==
    NewMenuController /\ InitButtonsIdle /\ InitSessionsIdle /\ InitHistory

Init == InitFB /\ InitDev /\ InitDaemon /\ InitNavIdle /\ InitRest

SpecFB == Init /\ [][NextFB]_vars

SpecDraw == Init /\ [][NextDraw]_vars

SpecHistory == Init /\ [][NextHistory]_vars

SpecDev == Init /\ [][NextDev]_vars

SpecLed == Init /\ [][NextLed]_vars

SpecCmd == Init /\ [][NextCmd]_vars

\* cmdMenu: the same start, with the signal goroutine installed.
MenuInit == InitFB /\ InitMenu /\ InitDaemon /\ InitNavIdle /\ InitRest

SpecMenu == MenuInit /\ [][NextMenu]_vars

SpecDaemon == Init /\ [][NextDaemon]_vars

\* The Run goroutine on its own, between two fetches of the collector.
NextRun ==
    \/ AnimTick
    \/ UpdateLEDs
    \/ RenderScreen
    \/ RotateTick

LedsInit == InitFB /\ InitDev /\ InitLeds /\ InitNavIdle /\ InitRest

SpecLeds == LedsInit /\ [][NextRun]_vars

\* The collector goroutine on its own.
NextCollector ==
    \/ GetMetricsCall
    \/ \E d \in Durations : GetMetricsError(d)
    \/ \E r \in Readings, d \in Durations : GetMetricsReturn(r, d)
    \/ StoreCachedMetrics
    \/ AddSample
    \/ PruneStale
    \/ ComputeRates

CollectorInit == InitFB /\ InitDev /\ InitCollector /\ InitNavIdle /\ InitRest

\* One menu, driven through its methods.
NavInit == InitFB /\ InitDev /\ InitDaemon /\ InitNav /\ InitRest

SpecNav == NavInit /\ [][NextNav]_vars

NavAnyInit == InitFB /\ InitDev /\ InitDaemon /\ InitNavAny /\ InitRest

SpecNavAny == NavAnyInit /\ [][NextNavAny]_vars

SpecCollector == CollectorInit /\ [][NextCollector]_vars

ButtonsInit ==
    /\ InitFB /\ InitDev /\ InitDaemon /\ InitNavIdle
    /\ NewMenuController /\ InitButtons /\ InitSessionsIdle /\ InitHistory

SpecButtons == ButtonsInit /\ [][NextButtons]_vars

\* The scheduler runs the poll goroutine whenever it can take a step; no
\* byte has to arrive, and the caller has to do nothing.
SpecButtonsFair ==
    ButtonsInit /\ [][NextButtonsOneStop]_vars /\ WF_vars(PollStep)

\* One Device, opened on a path in any state, and the sessions started on
\* it.
SessionInit ==
    /\ InitFB /\ InitDev /\ InitDaemon /\ InitNavIdle
    /\ NewMenuController /\ InitButtonsIdle /\ InitSessions /\ InitHistory

SpecSession == SessionInit /\ [][NextSession]_vars

\* MenuController.Run on the tree: the same start as Init.
SpecCtl == Init /\ [][NextCtl]_vars

(***************************************************************************)
(* Claims about the FrameBuffer codec (checked under SpecFB)               *)
(***************************************************************************)

\* C1: loading ToDeviceFormat(fb) into a fresh FrameBuffer with
\* FromDeviceFormat yields a buffer whose every pixel of the 128x64 grid
\* equals the corresponding pixel of fb.
C1_RoundTrip ==
    fbpc = "decoded" =>
        \A p \in AllPixels : GetPixel(fb2, p[1], p[2]) = GetPixel(fb, p[1], p[2])

\* A round trip of a pattern with pixels on in both halves and in the first
\* and last band, and pixels off.
C1_Witness ==
    /\ fbpc = "decoded"
    /\ {<<0, 0>>, <<64, 7>>, <<127, 63>>} \subseteq fb
    /\ <<0, 7>> \notin fb

DeviceStepped == lastStep'.n # lastStep.n

\* C3: Write only appends to the pending buffer: a Write leaves the link
\* alone and puts its bytes at the end of the buffer; and as long as no flush
\* has failed, the bytes handed to the link followed by the pending bytes are
\* exactly the concatenation of all written data in call order, each byte
\* once, so what was written since the last flush is still pending and not
\* yet on the link.
C3_WriteAppends ==
    /\ [](ioFailures = 0 =>
            Flatten(link) \o buffer = FlattenData(written))
    /\ [][(DeviceStepped /\ lastStep'.step = "Write") =>
            /\ Len(written') = Len(written) + 1
            /\ link' = link
            /\ buffer' = buffer \o written'[Len(written')].data]_vars

\* Write, Flush, Write with two different commands: one block on the link,
\* the second command still pending.
C3_Witness ==
    /\ ioFailures = 0
    /\ Len(written) = 2
    /\ written[1].data # written[2].data
    /\ link = <<written[1].data>>
    /\ buffer = written[2].data

\* C4: a successful Flush hands the whole pending buffer to the link as one
\* block and leaves the buffer empty; a Flush on an empty buffer sends
\* nothing, returns no error and changes neither buffer nor link, so a Flush
\* right after a successful Flush changes nothing.
C4_Flush ==
    [][(DeviceStepped /\ lastStep'.step = "Flush") =>
         /\ (buffer # <<>> /\ lastStep'.ret = "nil") =>
               /\ link' = Append(link, buffer)
               /\ buffer' = <<>>
         /\ (buffer = <<>>) =>
               /\ lastStep'.ret = "nil"
               /\ dret'[lastStep'.p] = "nil"
               /\ UNCHANGED <<buffer, link, written, ioFailures>>
         /\ (lastStep.step = "Flush" /\ lastStep.ret = "nil") =>
               /\ lastStep'.ret = "nil"
               /\ UNCHANGED <<buffer, link, written, ioFailures>>]_vars

\* A Flush call made right after a successful Flush that had sent a block.
C4_Witness ==
    /\ lastStep.step = "Flush"
    /\ lastStep.prev = "Flush"
    /\ dcur["main"].call = "Flush"
    /\ lastStep.sent = 0
    /\ Len(link) = 1
    /\ buffer = <<>>

LastBytes(s, n) == SubSeq(s, Len(s) - n + 1, Len(s))

\* C6: when UploadImage(img) returns without error the pending buffer is
\* empty and the last 1026 bytes handed to the link are ESC 'G' followed by
\* the 1024 bytes of img.
C6_UploadReachesLink ==
    (/\ lastStep.step = "Flush"
     /\ lastStep.fin
     /\ lastStep.ret = "nil"
     /\ dcur[lastStep.p].call = "UploadImage") =>
        /\ buffer = <<>>
        /\ Len(Flatten(link)) >= BufferSize + 2
        /\ LastBytes(Flatten(link), BufferSize + 2)
              = <<ESC, cmdUpload>> \o dcur[lastStep.p].data2

\* C7: writes are serialized per command: the Writes of one call (the
\* prefix and the payload of an UploadImage, the two commands of a SetLED)
\* are next to each other in the order in which bytes enter the buffer, and
\* hence on the link, with no Write of another goroutine's call in between.
C7_CommandsContiguous ==
    \A i, j \in DOMAIN written :
        (i < j /\ written[i].id = written[j].id) =>
            \A k \in i .. j : written[k].id = written[i].id

\* C8: when a flush fails with an I/O error (pipe, start of cu, write to
\* cu), the Flush, Close, UploadImage or SetLED that made it returns that
\* error and the pending buffer holds exactly the bytes it held before.
C8_FailureKeepsBuffer ==
    [][(DeviceStepped /\ ioFailures' # ioFailures) =>
         /\ lastStep'.ret \in {"pipe", "start", "write"}
         /\ lastStep'.fin
         /\ dret'[lastStep'.p] = lastStep'.ret
         /\ dcur'[lastStep'.p].call \in {"Flush", "Close", "UploadImage", "SetLED"}
         /\ buffer' = buffer
         /\ buffer # <<>>]_vars

\* The write to cu failed half-way through an UploadImage: part of the frame
\* is on the link and the whole frame is still pending.
C8_Witness ==
    /\ lastStep.ret = "write"
    /\ lastStep.sent = 1
    /\ dcur["main"].call = "UploadImage"
    /\ dret["main"] = "write"
    /\ buffer = <<ESC, cmdUpload>> \o dcur["main"].data2

(***************************************************************************)
(* Claims about the StatusDaemon (checked under SpecDaemon)                *)
(***************************************************************************)

\* C9: the render tick never waits on metrics acquisition: while a
\* GetMetrics call of the collector has not returned, the Run goroutine can
\* still take every step of a tick (the tick itself, the LED update, the
\* screen render), and a tick taken then runs render with the snapshot
\* stored last, or draws nothing when none is stored.
C9_RenderNeverWaits ==
    /\ [](cpc = "calling" =>
            /\ (rpc = "select" /\ frameCount < MaxFrames) => ENABLED AnimTick
            /\ (rpc = "leds") => ENABLED UpdateLEDs
            /\ (rpc = "screen") => ENABLED RenderScreen)
    /\ [][(cpc = "calling" /\ frameCount' # frameCount) =>
            /\ cpc' = "calling"
            /\ frameCount' = frameCount + 1
            /\ rm' = cachedMetrics
            /\ IF cachedMetrics = Nil
               THEN rpc' = "select" /\ UNCHANGED <<lastRender, ledState>>
               ELSE rpc' = "leds"]_vars

\* A whole tick was served, from the stored snapshot, while the second
\* GetMetrics call was (and still is) under way.
C9_Witness ==
    /\ cpc = "calling"
    /\ fetchLog.calls = 2
    /\ lastRender.call = 2
    /\ lastRender.frame = frameCount
    /\ lastRender.metrics = cachedMetrics
    /\ cachedMetrics # Nil
    /\ rpc = "select"

\* C10: when GetMetrics returns an error, fetchMetrics leaves the cached
\* snapshot, the history, the byte counters, the rate table and the
\* last-sample time unchanged and nothing of the render loop is touched;
\* until the next successful fetch the cache is the snapshot it was before
\* the error, and that is what the next tick renders.
C10_FetchErrorKeepsCache ==
    /\ [][(fetchLog'.errs # fetchLog.errs) =>
            /\ cpc' = "idle"
            /\ UNCHANGED <<cachedMetrics, history, lastIfaceBytes, ifaceRates,
                           lastSampleTime>>
            /\ UNCHANGED <<frameCount, currentScreen, rpc, rm, ledState,
                           lastRender>>]_vars
    /\ []((fetchLog.last = "err") => cachedMetrics = fetchLog.before)
    /\ [][(fetchLog.last = "err" /\ frameCount' # frameCount) =>
            rm' = fetchLog.before]_vars
    /\ [][(fetchLog.last = "err" /\ rpc = "screen" /\ rpc' = "select"
           /\ rm = fetchLog.before) =>
            lastRender'.metrics = fetchLog.before]_vars

\* A fetch stored a snapshot, the next one failed, and the tick after the
\* failure drew the stored snapshot.
C10_Witness ==
    /\ fetchLog.last = "err"
    /\ fetchLog.before # Nil
    /\ cachedMetrics = fetchLog.before
    /\ history.CPUHistory # <<>>
    /\ lastRender.frame = 1
    /\ lastRender.call = 0
    /\ lastRender.metrics = fetchLog.before
    /\ rpc = "select"

C12_RatesReadOutsideRefresh ==
    (lastRender.frame > 0 /\ lastRender.screen >= 4)
        => ~lastRender.midRefresh

\* C13: while sd.cachedMetrics has never been assigned, a render tick sends
\* nothing to the device: render returns before updateLEDs and before the
\* screen's Render, so no SetLED and no frame upload has happened.
C13_NoOutputBeforeFirstSnapshot ==
    /\ [](cachedMetrics = Nil =>
            /\ rpc = "select"
            /\ ledState = [LED1 |-> "unset", LED2 |-> "unset", LED3 |-> "unset"]
            /\ lastRender.frame = 0)
    /\ [][(cachedMetrics = Nil /\ frameCount' # frameCount) =>
            /\ rpc' = "select"
            /\ UNCHANGED <<ledState, lastRender>>]_vars

\* A tick was served after a failed fetch, with nothing stored yet.
C13_Witness ==
    /\ cachedMetrics = Nil
    /\ fetchLog.errs >= 1
    /\ frameCount >= 1
    /\ rpc = "select"

(***************************************************************************)
(* Claims about fetchMetrics (checked under SpecCollector)                 *)
(***************************************************************************)

\* The counters the snapshot m reports for interface n.
Counters(m, n) ==
    LET i == CHOOSE i \in DOMAIN m.Interfaces :
                 /\ m.Interfaces[i].Name = n
                 /\ \A j \in DOMAIN m.Interfaces :
                       m.Interfaces[j].Name = n => j <= i
    IN  m.Interfaces[i]

\* The rate r is num / den bytes per second.
RateIs(r, num, den) ==
    /\ ~r.delta.wrapped
    /\ r.delta.v * den = num * r.elapsed

\* C14: after a successful refresh that follows another successful one (the
\* first two included), an interface reported by both with counters that did
\* not decrease has tx rate (tx2 - tx1)/d and rx rate (rx2 - rx1)/d, d > 0
\* being the seconds between the two refreshes.
C14_RateFromSuccessiveRefreshes ==
    (cpc = "idle" /\ fetchLog.last = "ok" /\ fetchLog.before # Nil) =>
        \A n \in IfaceNames(cachedMetrics) \cap IfaceNames(fetchLog.before) :
            LET new == Counters(cachedMetrics, n)
                old == Counters(fetchLog.before, n)
                d   == lastSampleTime - fetchLog.beforeTime
            IN  (d > 0 /\ new.TxBytes >= old.TxBytes /\ new.RxBytes >= old.RxBytes)
                => /\ RateIs(GetIfaceRate(ifaceRates, n).txRate,
                             new.TxBytes - old.TxBytes, d)
                   /\ RateIs(GetIfaceRate(ifaceRates, n).rxRate,
                             new.RxBytes - old.RxBytes, d)

\* C15: once a successful refresh has completed, the rate table and the
\* last-byte-counter table have no entry for a name the refresh's snapshot
\* does not report, and an interface the previous snapshot did not report
\* (new, or back after having been pruned) has no rate: none is computed
\* from counters older than the previous refresh.
C15_StalePruned ==
    /\ (cpc \in {"idle", "calling"} /\ cachedMetrics # Nil) =>
          /\ DOMAIN ifaceRates \subseteq IfaceNames(cachedMetrics)
          /\ DOMAIN lastIfaceBytes \subseteq IfaceNames(cachedMetrics)
    /\ (cpc = "idle" /\ fetchLog.last = "ok" /\ fetchLog.before # Nil) =>
          \A n \in IfaceNames(cachedMetrics) \ IfaceNames(fetchLog.before) :
              n \notin DOMAIN ifaceRates

\* em1 had an entry, was pruned by a refresh that did not report it, and is
\* reported again by the refresh that has just completed.
C15_Witness ==
    /\ cpc = "idle"
    /\ fetchLog.last = "ok"
    /\ "em1" \in fetchLog.pruned
    /\ "em1" \in IfaceNames(cachedMetrics)
    /\ "em1" \notin IfaceNames(fetchLog.before)
    /\ "em1" \in DOMAIN lastIfaceBytes

(***************************************************************************)
(* Claims about the LEDs and the screen rotation                           *)
(***************************************************************************)

\* The health colour for CPU % cpu and memory used/total, thresholds
\* exclusive.
HealthColour(cpu, used, total) ==
    IF cpu > 90 \/ used * 100 > 90 * total THEN "LEDRed"
    ELSE IF cpu > 70 \/ used * 100 > 80 * total THEN "LEDOrange"
    ELSE "LEDGreen"

ScreenNames == <<"Logo", "CPU", "Memory", "Interfaces", "WAN", "Tunnel", "LAN">>

InfoColour(name) ==
    IF name = "Logo" THEN "LEDGreen"
    ELSE IF name \in {"WAN", "Tunnel", "LAN"} THEN "LEDOrange"
    ELSE "LEDOff"

HomeColour(name) == IF name = "Logo" THEN "LEDGreen" ELSE "LEDOff"

\* C17: on a render tick LED1 is Green on the Logo screen, Orange on the
\* WAN, Tunnel and LAN screens and Off otherwise, LED3 is Green on the Logo
\* screen and Off otherwise, and both are computed from the index of the
\* screen that the same tick draws.
C17_ScreenLEDs ==
    /\ (rpc = "screen") =>
          /\ ledState.LED1 = InfoColour(ScreenNames[currentScreen + 1])
          /\ ledState.LED3 = HomeColour(ScreenNames[currentScreen + 1])
    /\ (rpc # "screen" /\ lastRender.frame > 0) =>
          /\ ledState.LED1 = InfoColour(ScreenNames[lastRender.screen + 1])
          /\ ledState.LED3 = HomeColour(ScreenNames[lastRender.screen + 1])

\* A tick drew the WAN screen with LED1 Orange and LED3 Off, and the index
\* has moved on since.
C17_Witness ==
    /\ rpc = "select"
    /\ lastRender.frame > 0
    /\ ScreenNames[lastRender.screen + 1] = "WAN"
    /\ ledState.LED1 = "LEDOrange"
    /\ ledState.LED3 = "LEDOff"
    /\ currentScreen # lastRender.screen

\* C18: the active-screen index is always in [0, number of screens); only a
\* rotation tick changes it, to (index + 1) mod (number of screens), and a
\* rotation tick changes nothing else; render ticks leave it alone.
C18_Rotation ==
    /\ [](currentScreen \in 0 .. NumScreens - 1)
    /\ [][currentScreen' # currentScreen =>
            /\ currentScreen' = (currentScreen + 1) % NumScreens
            /\ rpc = "select"
            /\ UNCHANGED <<cachedMetrics, history, lastIfaceBytes, ifaceRates,
                           lastSampleTime, frameCount, cpc, cm, rpc, rm,
                           ledState, lastRender, clock, fetchLog>>]_vars
    /\ [][frameCount' # frameCount \/ rpc' # rpc =>
            currentScreen' = currentScreen]_vars

\* The index has wrapped from the last screen to the first after a tick drew
\* the last screen.
C18_Witness ==
    /\ lastRender.frame > 0
    /\ lastRender.screen = NumScreens - 1
    /\ currentScreen = 0

(***************************************************************************)
(* Claims about Menu selection (checked under SpecNav)                     *)
(***************************************************************************)

\* The nearest enabled item cyclically after (forward) or before index i.
NearestEnabled(items, i, forward) ==
    LET n == Len(items)
        at(k) == IF forward THEN (i + k) % n ELSE (i + n - k) % n
        k == CHOOSE k \in 1 .. n :
                 /\ ~items[at(k) + 1].Disabled
                 /\ \A j \in 1 .. k - 1 : items[at(j) + 1].Disabled
    IN  at(k)

\* C19: in a menu with at least one enabled item, SelectNext returns with
\* the selection on the nearest enabled item cyclically after the previous
\* index and SelectPrevious on the nearest one before it, never on a
\* disabled item; with 4 items of which item 2 is disabled, SelectNext goes
\* 0 -> 1 -> 3 -> 0.
C19_SelectSkipsDisabled ==
    (~allDisabled(Items) /\ menuLog.op \in {"SelectNext", "SelectPrevious"}) =>
        /\ navpc = "ready"
        /\ ~Items[selected + 1].Disabled
        /\ selected = NearestEnabled(Items, menuLog.prev,
                                     menuLog.op = "SelectNext")
        /\ (Items = FourItems /\ menuLog.op = "SelectNext") =>
              /\ menuLog.prev = 0 => selected = 1
              /\ menuLog.prev = 1 => selected = 3
              /\ menuLog.prev = 3 => selected = 0

\* In the four-item menu SelectNext has gone from item 1 over the disabled
\* item 2 to item 3.
C19_Witness ==
    /\ Items = FourItems
    /\ menuLog = [op |-> "SelectNext", prev |-> 1]
    /\ selected = 3
    /\ navpc = "ready"

\* C20: when every item of a non-empty menu is disabled, SelectNext and
\* SelectPrevious return and leave the selected index unchanged.
C20_AllDisabledKeepsSelection ==
    (allDisabled(Items) /\ menuLog.op \in {"SelectNext", "SelectPrevious"}) =>
        /\ navpc = "ready"
        /\ selected = menuLog.prev

(***************************************************************************)
(* Claims about the scroll window (checked under SpecNav)                  *)
(***************************************************************************)

Pressed == mcLog'.n # mcLog.n

\* The step leaves the current menu and every menu's selection and scroll
\* offset as they were.
NavigationUnchanged == currentMenu' = currentMenu /\ menus' = menus

\* C21: Enter or Right on an enabled item that has a submenu makes that
\* submenu the current menu, and every menu keeps its own selected index and
\* scroll offset across visits: no step changes them for a menu other than
\* the current one, and a step that changes the current menu changes them
\* for no menu.
C21_DescendKeepsState ==
    [][/\ (/\ Pressed
           /\ mcLog'.btn \in {"Enter", "Right"}
           /\ ~SelectedItem.Disabled
           /\ SelectedItem.SubMenu # NoMenu) =>
              currentMenu' = SelectedItem.SubMenu
       /\ \A m \in MenuIds : m # currentMenu => menus'[m] = menus[m]
       /\ currentMenu' # currentMenu => menus' = menus]_vars

\* Display entered from the main menu for at least the second time: it
\* shows the last item selected and the window scrolled, as it was left.
C21_Witness ==
    /\ mcLog.btn = "Enter"
    /\ mcLog.prevMenu = "main"
    /\ currentMenu = "display"
    /\ menus["display"] = [selected |-> 7, scrollOffset |-> 2]
    /\ menus["led"].selected = 1

\* C22: Left or Esc in a menu whose Parent is set makes the parent the
\* current menu; Left or Esc in a menu without Parent makes Run return nil
\* in that step, without rendering and with the navigation state left as it
\* was; and once Run has returned it handles no further button.
C22_BackOrExit ==
    [][/\ (Pressed /\ mcLog'.btn \in {"Left", "Esc"}) =>
              IF Tree[currentMenu].Parent # NoMenu
              THEN currentMenu' = Tree[currentMenu].Parent
              ELSE /\ mcpc' = "returned"
                   /\ mcret' = "nil"
                   /\ mcLog'.rendered = "no"
                   /\ NavigationUnchanged
       /\ mcpc = "returned" => UNCHANGED mcVars]_vars

\* Run has returned nil on Left at the main menu, after a walk that went
\* down to LED Control and came back up through both parents.
C22_Witness ==
    /\ mcpc = "returned"
    /\ mcret = "nil"
    /\ mcLog.btn = "Left"
    /\ mcLog.rendered = "no"
    /\ currentMenu = "main"
    /\ menus["led"].selected = 1

\* C23: a button that changes neither the current menu nor any selection or
\* scroll offset is followed by no render.
C23_RenderOnlyOnChange ==
    [][(Pressed /\ NavigationUnchanged) => mcLog'.rendered = "no"]_vars

\* C25: when the action run by Enter or Right returns an error, Run does
\* not return, does not render, leaves the current menu and every selection
\* as they were, and is back at the head of its loop for the next button.
C25_ActionErrorSwallowed ==
    [][(Pressed /\ mcLog'.execErr) =>
          /\ mcLog'.btn \in {"Enter", "Right"}
          /\ mcpc' = "loop"
          /\ mcret' = "none"
          /\ mcLog'.rendered = "no"
          /\ NavigationUnchanged]_vars

\* The button after a failed action has been handled: Down moved the
\* selection in LED Control and the menu was rendered.
C25_Witness ==
    /\ mcLog.prevErr
    /\ mcLog.btn = "Down"
    /\ mcLog.rendered = "yes"
    /\ currentMenu = "led"
    /\ mcpc = "loop"

(***************************************************************************)
(* Claims about ButtonChannel (checked under SpecButtons, and              *)
(* SpecButtonsFair for termination)                                        *)
(***************************************************************************)
\* The numbers of the bytes in a sequence of numbered bytes.
Numbers(bytes) == {bytes[k].i : k \in DOMAIN bytes}

\* The bytes the loop body has been through.
Processed == 1 .. (brLog.arrived - Len(stdout) - Len(pollbuf))

\* C26: the channel never holds more than 10 buttons; a button is discarded
\* only when the channel holds 10, and the loop body can always take its
\* step; every decoded button is either accepted or discarded; and the
\* accepted buttons are exactly those received followed by those still in
\* the channel, in the order their bytes were read, each once.
C26_BoundedNonBlockingDelivery ==
    /\ Len(ch) <= chanCap
    /\ \A k \in DOMAIN brLog.dropped : brLog.dropped[k].len = chanCap
    /\ (pollpc = "process" /\ Running) => ENABLED ProcessByte
    /\ {i \in Processed : PanelByte(i).code # ButtonNone}
          = Numbers(brLog.accepted)
              \cup {brLog.dropped[k].b.i : k \in DOMAIN brLog.dropped}
    /\ got \o ch = brLog.accepted
    /\ \A k \in 1 .. Len(got \o ch) - 1 : (got \o ch)[k].i < (got \o ch)[k + 1].i

\* A button was discarded at a full channel, the caller then received, a
\* later button was accepted, and every accepted button has been received.
C26_Witness ==
    /\ brLog.dropped # <<>>
    /\ got # <<>>
    /\ got[Len(got)].i > brLog.dropped[1].b.i
    /\ ch = <<>>
    /\ Len(got) > chanCap

\* C27: the channel is closed by the poll goroutine as it exits, and once
\* it is closed no button is sent on it and none is received from it.
C27_NothingAfterClose ==
    [][/\ (chClosed' /\ ~chClosed) => (pollpc # "exited" /\ pollpc' = "exited")
       /\ chClosed => /\ brLog'.accepted = brLog.accepted
                      /\ got' = got]_vars

\* C28: once stop has been called, the poll goroutine exits and closes the
\* channel, whether or not another byte arrives.
C28_StopTerminates == (stop = "closed") ~> chClosed

\* C29: a second call of stop raises no panic and leaves the stop channel
\* closed.
C29_StopIdempotent ==
    brLog.stops >= 2 => (consumerpc # "panicked" /\ stop = "closed")

(***************************************************************************)
(* Claims about PersistentSession (checked under SpecSession)              *)
(***************************************************************************)
\* The sessions of the Device that have not been closed.
LiveSessions == {k \in DOMAIN sessions : sessions[k].live}

\* C30: at most one session of the Device is live at any time.
C30_OneLiveSession == Cardinality(LiveSessions) <= 1

(***************************************************************************)
(* Claims about Open (checked under SpecSession)                           *)
(***************************************************************************)
\* C31: Open returns an error and no Device when the path is missing or
\* cannot be opened for read/write, and a Device with no error only when the
\* path could be acquired.
C31_OpenFailsOnBadPath ==
    IF port = "present"
    THEN openRet.device /\ openRet.err = "nil"
    ELSE ~openRet.device /\ openRet.err # "nil"

(***************************************************************************)
(* Claims about SetLED (checked under SpecLed)                             *)
(***************************************************************************)
\* The channel an ESC 'L' value addresses (its high nibble) and the status
\* it gives it (its bit 0).
ChannelOf(v) ==
    LET id == v - (v % 16)
    IN  IF id = led1Red THEN <<"LED1", "red">>
        ELSE IF id = led1Green THEN <<"LED1", "green">>
        ELSE IF id = led2Red THEN <<"LED2", "red">>
        ELSE IF id = led2Green THEN <<"LED2", "green">>
        ELSE IF id = led3Red THEN <<"LED3", "red">>
        ELSE <<"LED3", "green">>

StatusOf(v) == IF v % 2 = ledStatusOn THEN "on" ELSE "off"

\* The state of the six channels after the panel has taken the ESC 'L'
\* commands of a byte stream, starting from state st.
RECURSIVE LedChannels(_, _)
LedChannels(bytes, st) ==
    IF Len(bytes) < 3 THEN st
    ELSE IF bytes[1] = ESC /\ bytes[2] = cmdLED
         THEN LedChannels(SubSeq(bytes, 4, Len(bytes)),
                          [st EXCEPT ![ChannelOf(bytes[3])] = StatusOf(bytes[3])])
         ELSE LedChannels(Tail(bytes), st)

\* The channels as the bytes on the link leave them; "unset" until a
\* command addresses the channel.
ChannelsOn(blocks) ==
    LedChannels(Flatten(blocks),
                [c \in LEDs \X {"red", "green"} |-> "unset"])

\* The channels a colour stands for.
ColourChannels(color) ==
    [red   |-> IF color \in {"LEDRed", "LEDOrange"} THEN "on" ELSE "off",
     green |-> IF color \in {"LEDGreen", "LEDOrange"} THEN "on" ELSE "off"]

CanonicalBytes(name, arg) ==
    IF name = "Init" THEN <<27, 64>>
    ELSE IF name = "Clear" THEN <<12>>
    ELSE IF name = "Home" THEN <<11>>
    ELSE IF name = "SetBacklight" THEN <<27, 66, arg>>
    ELSE IF name = "ShowPage" THEN <<27, 80, arg>>
    ELSE IF name = "SavePage" THEN <<27, 83, arg>>
    ELSE IF name = "SetInverted" THEN <<27, 114>> \o (IF arg THEN <<1>> ELSE <<0>>)
    ELSE IF name = "MoveCursor"
         THEN <<27, 91>> \o (IF arg = "Up" THEN <<65>>
                             ELSE IF arg = "Down" THEN <<66>>
                             ELSE IF arg = "Right" THEN <<67>>
                             ELSE <<68>>)
    ELSE <<27, 76, arg>>

\* C33: a command method appends exactly its canonical bytes to the pending
\* buffer, whatever was pending and whatever ran before, and sends nothing.
C33_CommandBytes ==
    [][(nCalls' = nCalls + 1 /\ dcur'["main"].call # "Flush") =>
          /\ buffer' = buffer \o CanonicalBytes(dcur'["main"].call,
                                                dcur'["main"].arg)
          /\ link' = link]_vars

\* SetBacklight(200) and then MoveCursor(Left), with nothing flushed: the
\* buffer holds 1B 42 C8 1B 5B 44.
C33_Witness ==
    /\ dcur["main"].call = "MoveCursor"
    /\ dcur["main"].arg = "Left"
    /\ buffer = <<27, 66, 200, 27, 91, 68>>
    /\ link = <<>>

(***************************************************************************)
(* Claims about the drawing primitives (checked under SpecDraw)            *)
(***************************************************************************)
\* C34: a SetPixel or Invert with x outside [0,128) or y outside [0,64)
\* leaves the buffer as it was, and a GetPixel there returns false, whatever
\* the buffer holds.
C34_OutOfBoundsNoOp ==
    (/\ fbLog.op \in {"SetPixel", "Invert", "GetPixel"}
     /\ (fbLog.x < 0 \/ fbLog.x >= 128 \/ fbLog.y < 0 \/ fbLog.y >= 64)) =>
        /\ fb = fbLog.before
        /\ ~fbLog.got

\* An Invert one column right of the display on a buffer with the corner
\* pixels (0,0) and (127,63) on: they are still on, and nothing else is.
C34_Witness ==
    /\ fbLog.op = "Invert"
    /\ fbLog.x = 128
    /\ fbLog.y = 63
    /\ fb = {<<0, 0>>, <<127, 63>>}
    /\ fbLog.before = fb

\* The pixels of the display inside the rectangle of the last FillRect.
RectPixels ==
    {p \in AllPixels : /\ fbLog.x <= p[1] /\ p[1] < fbLog.x + fbLog.w
                       /\ fbLog.y <= p[2] /\ p[2] < fbLog.y + fbLog.h}

\* C36: after FillRect(x, y, w, h, on) the pixels of the display inside the
\* rectangle are `on` and every other pixel is as it was before.
C36_FillRectExact ==
    fbLog.op = "FillRect" =>
        fb = IF fbLog.on THEN fbLog.before \cup RectPixels
             ELSE fbLog.before \ RectPixels

(***************************************************************************)
(* Claims about MetricsHistory (checked under SpecHistory)                 *)
(***************************************************************************)
\* The last n entries of a sequence (all of it when it has fewer).
LastN(seq, n) ==
    IF Len(seq) <= n THEN seq ELSE SubSeq(seq, Len(seq) - n + 1, Len(seq))

\* The TX (tx = TRUE) or RX rates of the samples added so far, one for each
\* sample from the second on, in arrival order.
RatesAdded(tx) ==
    [i \in 1 .. (IF histLog = <<>> THEN 0 ELSE Len(histLog) - 1) |->
        LET k == i + 1
            f == IF tx THEN 100 ELSE 10
        IN  Rate([wrapped |-> FALSE, v |-> f * k * k - f * (k - 1) * (k - 1)], 5)]

\* C35: each series holds at most maxSamples entries, and they are the most
\* recent values added, in arrival order.
C35_HistoryBounded ==
    /\ Len(hist.CPUHistory) <= maxSamples
    /\ Len(hist.TxRateHistory) <= maxSamples
    /\ Len(hist.RxRateHistory) <= maxSamples
    /\ hist.CPUHistory = LastN(histLog, maxSamples)
    /\ hist.TxRateHistory = LastN(RatesAdded(TRUE), maxSamples)
    /\ hist.RxRateHistory = LastN(RatesAdded(FALSE), maxSamples)

\* Fourteen samples added: the CPU series has lost the first two, the rate
\* series the first.
C35_Witness ==
    /\ Len(histLog) = 14
    /\ Len(hist.CPUHistory) = maxSamples
    /\ hist.CPUHistory[1] = histLog[3]
    /\ hist.CPUHistory[maxSamples] = histLog[14]
    /\ hist.TxRateHistory[1] = Rate([wrapped |-> FALSE, v |-> 500], 5)

(***************************************************************************)
(* More claims about MenuController.Run (checked under SpecCtl)            *)
(***************************************************************************)
\* C37: when Enter or Right has just taken Run from a menu M into a
\* submenu, the Left or Esc that follows makes M the current menu again and
\* does not make Run return nil.
C37_AscendUndoesDescend ==
    [][(/\ Pressed
        /\ mcLog'.btn \in {"Left", "Esc"}
        /\ mcLog.btn \in {"Enter", "Right"}
        /\ mcLog.prevMenu # currentMenu) =>
          /\ currentMenu' = mcLog.prevMenu
          /\ mcret' # "nil"]_vars

(***************************************************************************)
(* cmdMenu: MenuController.Run reading the channel of a button reader      *)
(***************************************************************************)
MaxPresses == 3

ButtonHelp == 65
ButtonLeft == 66
ButtonEsc == 67
ButtonUp == 68
ButtonEnter == 69
ButtonDown == 70
ButtonRight == 71

\* The byte of each button of the panel; 0x7A is a byte that is no button.
ButtonCode(b) ==
    CASE b = "Help" -> ButtonHelp
      [] b = "Left" -> ButtonLeft
      [] b = "Esc" -> ButtonEsc
      [] b = "Up" -> ButtonUp
      [] b = "Enter" -> ButtonEnter
      [] b = "Down" -> ButtonDown
      [] b = "Right" -> ButtonRight
      [] OTHER -> 122

\* The case of Run's switch a received byte falls in.
ButtonName(code) ==
    IF \E b \in Buttons \ {"0x7A"} : ButtonCode(b) = code
    THEN CHOOSE b \in Buttons \ {"0x7A"} : ButtonCode(b) = code
    ELSE "0x7A"

\* The operator presses a button: the panel puts its byte on the line.
PanelPress(b) ==
    /\ Running
    /\ brLog.arrived < MaxPresses
    /\ stdout' = Append(stdout, [i |-> brLog.arrived + 1, code |-> ButtonCode(b)])
    /\ brLog' = [brLog EXCEPT !.arrived = @ + 1]
    /\ UNCHANGED <<reader, ch, chClosed, stop, pollpc, pollbuf, consumerpc, got>>
    /\ UNCHANGED <<fbVars, devVars, dmVars, mnVars, mcVars, ssVars, hsVars>>

\* Run has received a button and has not yet gone through its switch.
Pending == Len(got) % 2 # mcLog.n

\* The button Run is handling.
Received == ButtonName(got[Len(got)].code)

\* for btn := range buttons: Run takes the next button from the channel.
RunReceive ==
    /\ mcpc = "loop"
    /\ ~Pending
    /\ Receive

\* The body of the loop for the button received.
RunSelect == Pending /\ \E f \in BOOLEAN : PressSelect(Received, f)

RunEnter == Pending /\ \E a \in BOOLEAN, f \in BOOLEAN : PressEnter(Received, a, f)

RunBack == Pending /\ \E f \in BOOLEAN : PressBack(Received, f)

RunOther == Pending /\ PressOther(Received)

\* defer stop(): Run has returned.
RunStops == mcpc = "returned" /\ Stop

NextMenuRun ==
    \/ \E b \in Buttons : PanelPress(b)
    \/ \E f \in BOOLEAN : RunStart(f)
    \/ PollSelect
    \/ PollRead
    \/ ProcessByte
    \/ Sleep
    \/ RunReceive
    \/ RunSelect
    \/ RunEnter
    \/ RunBack
    \/ RunOther
    \/ RunStops

SpecMenuRun == ButtonsInit /\ [][NextMenuRun]_vars

C39_SelectionInRange ==
    /\ navpc # "panicked"
    /\ IF Items = <<>> THEN selected = 0
       ELSE selected >= 0 /\ selected < Len(Items)

(***************************************************************************)
(* Counter resets (checked under SpecCollector)                            *)
(***************************************************************************)
\* C40: after a successful refresh that reports an interface with a TX or
\* RX counter lower than in the previous successful refresh, d > 0 seconds
\* earlier, the rate stored for the interface is the uint64 difference
\* (2^64 less the drop, so neither negative nor zero) over d.
C40_CounterResetWraps ==
    (cpc = "idle" /\ fetchLog.last = "ok" /\ fetchLog.before # Nil) =>
        \A n \in IfaceNames(cachedMetrics) \cap IfaceNames(fetchLog.before) :
            LET new == Counters(cachedMetrics, n)
                old == Counters(fetchLog.before, n)
                d   == lastSampleTime - fetchLog.beforeTime
                r   == GetIfaceRate(ifaceRates, n)
            IN  /\ (d > 0 /\ new.TxBytes < old.TxBytes) =>
                      /\ n \in DOMAIN ifaceRates
                      /\ r.txRate = Rate([wrapped |-> TRUE,
                                          v |-> old.TxBytes - new.TxBytes], d)
                /\ (d > 0 /\ new.RxBytes < old.RxBytes) =>
                      /\ n \in DOMAIN ifaceRates
                      /\ r.rxRate = Rate([wrapped |-> TRUE,
                                          v |-> old.RxBytes - new.RxBytes], d)

====
